---- MODULE Spec2Model ----
(***************************************************************************)
(* A model of the memory-backed blockchain database of                     *)
(* base_layer/core/src/chain_storage/memory_db.rs: the record tables, the  *)
(* three Merkle change trackers, the write-batch executor and the lock     *)
(* that serialises the calls of concurrent threads; and of the duplicate   *)
(* filter of inbound DHT messages of comms/dht/src/inbound/dedup.rs.       *)
(*                                                                         *)
(* The Merkle change tracker itself (crate tari_mmr) is a collaborator     *)
(* whose code is not part of the sources at hand; it is modelled from its  *)
(* documented contract: an ordered leaf-hash sequence with a tombstone     *)
(* set, a checkpoint history and pending (uncommitted) changes.  A root is *)
(* modelled as the data it commits to (a collision-free hash).             *)
(***************************************************************************)
EXTENDS Integers, Sequences, FiniteSets, TLC

VARIABLES
    db,         \* the InnerDatabase behind the lock
    result,     \* the call that returned last and what it returned
    lock,       \* the RwLock around the database
    threads,    \* where each thread stands in the call it is making
    dedup       \* the signature cache and the service after the duplicate filter

vars == <<db, result, lock, threads, dedup>>

\* the variables of the threads and of the message filter
others == <<lock, threads, dedup>>

----------------------------------------------------------------------------
(* Bounds of the model and program constants *)

\* number of distinct output / kernel / block hashes used as keys
NumHashes == 2
\* number of distinct values (outputs, kernels, headers, blocks)
NumValues == 2
\* cap on the number of leaves one accumulator may hold
MaxLeaves == 2
\* greatest steps_back given to RewindMmr
MaxStepsBack == 1
\* cap on the number of checkpoints one accumulator may hold
MaxCheckpoints == 1
\* longest batch handed to write in the batch-order specification
MaxBatchLen == 3
\* longest list of additions or deletions given to calculate_mmr_root
MaxListLen == 1

\* greatest block height: blocks are added at heights 0..MaxHeight
MaxHeight == 4

\* MerkleChangeTrackerConfig of the database under test
min_history_len == 2
max_history_len == 3

Hashes == 1..NumHashes
Values == 1..NumValues
MmrTree == {"Utxo", "Kernel", "RangeProof"}

----------------------------------------------------------------------------
(* Small helpers *)

\* a HashMap with no entries
EmptyMap == [x \in {} |-> 0]

\* HashMap::insert
MapInsert(m, k, v) == [x \in DOMAIN m \cup {k} |-> IF x = k THEN v ELSE m[x]]

\* HashMap::remove
MapRemove(m, k) == [x \in DOMAIN m \ {k} |-> m[x]]

\* a table that reports every key as free
contains_key_never(m, k) == FALSE

\* HashMap::contains_key, as the duplicate check of Insert uses it
contains_key(m, k) == k \in DOMAIN m

\* the first n elements of a sequence
Take(s, n) == SubSeq(s, 1, n)

\* the elements of a sequence after the first n
Drop(s, n) == SubSeq(s, n + 1, Len(s))

----------------------------------------------------------------------------
(* Results: Ok(value) or Err(kind, message) of ChainStorageError *)

Ok(v) == [ok |-> TRUE, kind |-> "Ok", msg |-> "", val |-> v]

Err(kind, msg) == [ok |-> FALSE, kind |-> kind, msg |-> msg, val |-> <<>>]

\* an input outside the bounds of the model: the call is not taken
OutOfModel == Err("OutOfModel", "")

----------------------------------------------------------------------------
(* The accumulator (tari_mmr), from its documented contract.               *)
(* A MutableMmr is a leaf-hash sequence and a set of tombstoned leaf       *)
(* indices (0-based).                                                      *)

EmptyMmr == [hashes |-> <<>>, deleted |-> {}]

\* MutableMmr::push: append a leaf
mmr_push(m, hash) == [m EXCEPT !.hashes = Append(@, hash)]

\* whether MutableMmr::delete tombstones anything: the leaf exists and is live
mmr_can_delete(m, index) == index >= 0 /\ index < Len(m.hashes) /\ index \notin m.deleted

\* MutableMmr::delete: tombstone a leaf without resizing the sequence
mmr_delete(m, index) ==
    IF mmr_can_delete(m, index) THEN [m EXCEPT !.deleted = @ \cup {index}] ELSE m

\* the root including the tombstone set
get_merkle_root(m) == [root |-> "merkle", hashes |-> m.hashes, deleted |-> m.deleted]

\* the root over the leaf hashes only
get_mmr_only_root(m) == [root |-> "mmr_only", hashes |-> m.hashes]

NoIndex == -1

\* find_leaf_index: the index of the first leaf with that hash, or none
find_leaf_index(m, hash) ==
    LET hits == {i \in 0..(Len(m.hashes) - 1) : m.hashes[i + 1] = hash}
    IN  IF hits = {} THEN NoIndex ELSE CHOOSE i \in hits : \A j \in hits : i <= j

\* get_leaf_status: (hash, tombstoned?) of an existing leaf
get_leaf_status(m, pos) == <<m.hashes[pos + 1], pos \in m.deleted>>

\* a checkpoint: the leaves added and the leaves tombstoned since the last one
MerkleCheckPoint(added, deleted) == [nodes_added |-> added, nodes_deleted |-> deleted]

\* apply one checkpoint to an accumulator state
apply_checkpoint(m, cp) ==
    [hashes |-> m.hashes \o cp.nodes_added, deleted |-> m.deleted \cup cp.nodes_deleted]

RECURSIVE replay(_, _)
\* the state after applying a sequence of checkpoints in order
replay(m, cps) ==
    IF cps = <<>> THEN m ELSE replay(apply_checkpoint(m, Head(cps)), Tail(cps))

\* MerkleChangeTracker::new over an empty base with no checkpoints
NewTracker ==
    [base |-> EmptyMmr, checkpoints |-> <<>>,
     current_additions |-> <<>>, current_deletions |-> {}, mmr |-> EmptyMmr]

\* MerkleChangeTracker::push: a pending addition
mct_push(t, hash) ==
    [t EXCEPT !.mmr = mmr_push(@, hash), !.current_additions = Append(@, hash)]

\* MerkleChangeTracker::delete: a pending tombstone, when the leaf is live
mct_delete(t, index) ==
    IF mmr_can_delete(t.mmr, index)
    THEN [t EXCEPT !.mmr = mmr_delete(@, index), !.current_deletions = @ \cup {index}]
    ELSE t

\* MerkleChangeTracker::commit: seal the pending changes into a new checkpoint;
\* beyond max_history_len the oldest checkpoints are merged into the base
mct_commit(t) ==
    LET cps == Append(t.checkpoints, MerkleCheckPoint(t.current_additions, t.current_deletions))
        n   == Len(cps)
        merged == IF n > max_history_len THEN n - min_history_len ELSE 0
    IN  [t EXCEPT !.base = replay(@, Take(cps, merged)),
                  !.checkpoints = Drop(cps, merged),
                  !.current_additions = <<>>,
                  !.current_deletions = {}]

\* MerkleChangeTracker::reset: discard the pending changes
mct_reset(t) ==
    [t EXCEPT !.mmr = replay(t.base, t.checkpoints),
              !.current_additions = <<>>,
              !.current_deletions = {}]

\* MerkleChangeTracker::rewind: drop the steps_back most recent checkpoints
mct_rewind(t, steps_back) ==
    mct_reset([t EXCEPT !.checkpoints = Take(@, Len(@) - steps_back)])

\* MerkleChangeTracker::checkpoint_count
checkpoint_count(t) == Len(t.checkpoints)

\* MutableMmrLeafNodes: a leaf-hash sequence and a set of tombstoned positions
MutableMmrLeafNodes(leaf_hashes, deleted) == [leaf_hashes |-> leaf_hashes, deleted |-> deleted]

\* MutableMmr::assign: take the leaf hashes and the tombstone set as given
mmr_assign(m, state) == [hashes |-> state.leaf_hashes, deleted |-> state.deleted]

\* MerkleChangeTracker::assign: the assigned state becomes the base, and the
\* tracker starts over from it with no checkpoints and nothing pending
mct_assign(t, state) ==
    [base |-> mmr_assign(t.base, state), checkpoints |-> <<>>,
     current_additions |-> <<>>, current_deletions |-> {},
     mmr |-> mmr_assign(t.mmr, state)]

\* MerkleChangeTracker::get_checkpoint: the index-th retained checkpoint,
\* counted from the oldest retained one
get_checkpoint(t, index) ==
    IF index >= 0 /\ index < Len(t.checkpoints)
    THEN Ok(t.checkpoints[index + 1])
    ELSE Err("MerkleMountainRangeError", "OutOfRange")

\* prune_mutable_mmr: a private copy of the tracker's current accumulator
prune_mutable_mmr(t) == [hashes |-> t.mmr.hashes, deleted |-> t.mmr.deleted]

\* number of leaves of the tracker's current accumulator
leaf_count(t) == Len(t.mmr.hashes)

----------------------------------------------------------------------------
(* The lock around the database and the threads that call it *)

\* number of threads that call the database concurrently
NumThreads == 2

Threads == 1..NumThreads

\* no thread: the lock has no writer
NoThread == 0

\* RwLock::new: held by nobody, not poisoned.  Whether a reader that arrives
\* while a writer waits is let in (writers_first = FALSE) or made to wait
\* behind the writer (TRUE) is the choice of the platform's lock.
NewLock(writers_first) ==
    [writer |-> NoThread, readers |-> [t \in Threads |-> 0],
     poisoned |-> FALSE, writers_first |-> writers_first]

\* RwLock::write can return: no guard of either kind is out
can_write(l) == l.writer = NoThread /\ \A t \in Threads : l.readers[t] = 0

\* RwLock::read can return: no write guard is out and, when writers go
\* first, no writer waits
can_read(l, writer_waits) == l.writer = NoThread /\ (l.writers_first => ~writer_waits)

\* the error of a poisoned lock as the code turns it into a string
PoisonedLock == Err("AccessError", "poisoned lock: another task failed inside")

\* a db_access that takes the guard out of a poisoned lock
db_access_into_inner(l) == Ok(<<>>)

\* MemoryDatabase::db_access: the read guard, or AccessError from a
\* poisoned lock
db_access(l) == IF l.poisoned THEN PoisonedLock ELSE Ok(<<>>)

\* the write guard taken by write and by assign_mmr, or AccessError from a
\* poisoned lock
db_write_access(l) == IF l.poisoned THEN PoisonedLock ELSE Ok(<<>>)

\* a write that takes the guard anew for every operation
write_guard_per_operation(l, t) == [l EXCEPT !.writer = NoThread]

\* the lock between two operations of a write by thread t: the guard taken
\* before the loop is still out
write_guard_in_loop(l, t) == l

\* a thread that makes no call
Idle ==
    [pc |-> "idle", call |-> "none", tx |-> <<>>, applied |-> 0,
     base_state |-> MutableMmrLeafNodes(<<>>, {})]

\* a thread at the start of a call
Calling(pc, call, tx, base_state) ==
    [pc |-> pc, call |-> call, tx |-> tx, applied |-> 0, base_state |-> base_state]

----------------------------------------------------------------------------
(* The duplicate filter of inbound messages *)

\* number of distinct origin signatures
NumSignatures == 3

\* number of distinct message bodies
NumBodies == 2

Signatures == 1..NumSignatures

\* DhtInboundMessage: what the filter reads is the origin signature
DhtInboundMessage(origin_signature, body) ==
    [origin_signature |-> origin_signature, body |-> body]

Messages == {DhtInboundMessage(s, b) : s \in Signatures, b \in 1..NumBodies}

\* DedupMiddleware::new: an empty signature cache behind the requester, a
\* next service that was not called yet, and no duplicate logged
NewDedup == [signatures |-> {}, next_calls |-> <<>>, warned |-> {}]

\* DhtRequester::insert_message_signature: the replies the request can get.
\* The actor inserts the signature and tells whether it was cached already,
\* or the request fails and nothing is inserted.
insert_message_signature(cache, signature) ==
    {[ret |-> Ok(<<signature \in cache>>), cache |-> cache \cup {signature}],
     [ret |-> Err("MiddlewareError", "DhtActorError"), cache |-> cache]}

\* what the next service can return
ServiceResults == {Ok(<<>>), Err("MiddlewareError", "next service")}

\* a filter that logs a duplicate and passes it on
process_message_forwards_duplicates(d, message, reply, served) ==
    IF ~reply.ret.ok
    THEN [dedup |-> [d EXCEPT !.signatures = reply.cache], ret |-> reply.ret]
    ELSE [dedup |-> [d EXCEPT !.signatures = reply.cache,
                              !.warned = IF reply.ret.val[1] THEN @ \cup {message} ELSE @,
                              !.next_calls = Append(@, message)],
          ret |-> served]

\* DedupMiddleware::process_message with the reply of the requester and, when
\* the next service is called, what it returned: (filter, result)
process_message(d, message, reply, served) ==
    IF ~reply.ret.ok
    THEN [dedup |-> [d EXCEPT !.signatures = reply.cache], ret |-> reply.ret]
    ELSE IF reply.ret.val[1]
         THEN [dedup |-> [d EXCEPT !.signatures = reply.cache, !.warned = @ \cup {message}],
               ret |-> Ok(<<>>)]
         ELSE [dedup |-> [d EXCEPT !.signatures = reply.cache,
                                   !.next_calls = Append(@, message)],
               ret |-> served]

----------------------------------------------------------------------------
(* InnerDatabase and the helpers of the executor *)

\* MemoryDatabase::new: empty tables, three trackers over empty accumulators
NewDatabase ==
    [metadata |-> EmptyMap, headers |-> EmptyMap, block_hashes |-> EmptyMap,
     utxos |-> EmptyMap, stxos |-> EmptyMap, kernels |-> EmptyMap, orphans |-> EmptyMap,
     utxo_mmr |-> NewTracker, kernel_mmr |-> NewTracker, range_proof_mmr |-> NewTracker]

\* MerkleNode { index, value }
MerkleNode(index, value) == [index |-> index, value |-> value]

\* v.proof().hash(): the hash of an output's range proof
proof_hash(v) == 10 + v

\* v.hash() of a block header
header_hash(v) == 20 + v

\* the tracker a tree selector names
tree_mmr(d, tree) ==
    CASE tree = "Utxo" -> d.utxo_mmr
      [] tree = "Kernel" -> d.kernel_mmr
      [] tree = "RangeProof" -> d.range_proof_mmr

\* the database with the tracker of one tree replaced
with_tree_mmr(d, tree, t) ==
    CASE tree = "Utxo" -> [d EXCEPT !.utxo_mmr = t]
      [] tree = "Kernel" -> [d EXCEPT !.kernel_mmr = t]
      [] tree = "RangeProof" -> [d EXCEPT !.range_proof_mmr = t]

\* spend_utxo: (moved?, database)
spend_utxo(d, hash) ==
    IF hash \notin DOMAIN d.utxos
    THEN [moved |-> FALSE, db |-> d]
    ELSE LET utxo == d.utxos[hash]
         IN  [moved |-> TRUE,
              db |-> [d EXCEPT !.utxos = MapRemove(@, hash),
                               !.utxo_mmr = mct_delete(@, utxo.index),
                               !.stxos = MapInsert(@, hash, utxo)]]

\* an unspend that copies the record back and leaves it in the STXO table
unspend_stxo_keeps_spent(d, hash) ==
    IF hash \notin DOMAIN d.stxos
    THEN [moved |-> FALSE, db |-> d]
    ELSE [moved |-> TRUE, db |-> [d EXCEPT !.utxos = MapInsert(@, hash, d.stxos[hash])]]

\* an unspend that also takes the tombstone off the leaf of the record
unspend_stxo_restores_leaf(d, hash) ==
    IF hash \notin DOMAIN d.stxos
    THEN [moved |-> FALSE, db |-> d]
    ELSE LET stxo == d.stxos[hash]
         IN  [moved |-> TRUE,
              db |-> [d EXCEPT !.stxos = MapRemove(@, hash),
                               !.utxos = MapInsert(@, hash, stxo),
                               !.utxo_mmr.mmr.deleted = @ \ {stxo.index},
                               !.utxo_mmr.current_deletions = @ \ {stxo.index}]]

\* unspend_stxo: (moved?, database)
unspend_stxo(d, hash) ==
    IF hash \notin DOMAIN d.stxos
    THEN [moved |-> FALSE, db |-> d]
    ELSE LET stxo == d.stxos[hash]
         IN  [moved |-> TRUE,
              db |-> [d EXCEPT !.stxos = MapRemove(@, hash),
                               !.utxos = MapInsert(@, hash, stxo)]]

----------------------------------------------------------------------------
(* Keys, key/value pairs and write operations *)

DbKey(variant, k) == [variant |-> variant, k |-> k]

DbKeyValuePair(variant, k, v, update_mmr) ==
    [variant |-> variant, k |-> k, v |-> v, update_mmr |-> update_mmr]

Insert(kv) == [op |-> "Insert", kv |-> kv]
Delete(key) == [op |-> "Delete", key |-> key]
Spend(key) == [op |-> "Spend", key |-> key]
UnSpend(key) == [op |-> "UnSpend", key |-> key]
CreateMmrCheckpoint(tree) == [op |-> "CreateMmrCheckpoint", tree |-> tree]
RewindMmr(tree, steps_back) == [op |-> "RewindMmr", tree |-> tree, steps_back |-> steps_back]

DuplicateKey == Err("InvalidOperation", "Duplicate key")

\* an Insert that forgets the range-proof accumulator
push_output_utxo_only(d, k, v) == [d EXCEPT !.utxo_mmr = mct_push(@, k)]

\* the pushes of Insert(UnspentOutput) with update_mmr: the key onto the UTXO
\* accumulator, the proof hash onto the range-proof accumulator
push_output(d, k, v) ==
    [d EXCEPT !.utxo_mmr = mct_push(@, k),
              !.range_proof_mmr = mct_push(@, proof_hash(v))]

\* an Insert that pushes the leaves of an output before it looks for the key
write_insert_pushes_first(d, kv) ==
    IF kv.variant = "UnspentOutput"
    THEN LET pushed == IF kv.update_mmr THEN push_output(d, kv.k, kv.v) ELSE d
             index == find_leaf_index(pushed.range_proof_mmr.mmr, proof_hash(kv.v))
         IN  IF contains_key(d.utxos, kv.k)
             THEN [db |-> pushed, res |-> DuplicateKey]
             ELSE IF index # NoIndex
                  THEN [db |-> [pushed EXCEPT !.utxos = MapInsert(@, kv.k, MerkleNode(index, kv.v))],
                        res |-> Ok(<<>>)]
                  ELSE [db |-> pushed, res |-> Ok(<<>>)]
    ELSE [db |-> d, res |-> Ok(<<>>)]

\* an Insert that stores an output under leaf index 0 whether or not its
\* range-proof hash is found, and stores nothing else
write_insert_unresolved(d, kv) ==
    IF kv.variant = "UnspentOutput"
    THEN [db |-> [d EXCEPT !.utxos = MapInsert(@, kv.k, MerkleNode(0, kv.v))], res |-> Ok(<<>>)]
    ELSE [db |-> d, res |-> Ok(<<>>)]

\* WriteOperation::Insert: (database, result)
write_insert(d, kv) ==
    CASE kv.variant = "Metadata" ->
            IF contains_key(d.metadata, kv.k)
            THEN [db |-> d, res |-> DuplicateKey]
            ELSE [db |-> [d EXCEPT !.metadata = MapInsert(@, kv.k, kv.v)], res |-> Ok(<<>>)]
      [] kv.variant = "BlockHeader" ->
            IF contains_key(d.headers, kv.k)
            THEN [db |-> d, res |-> DuplicateKey]
            ELSE [db |-> [d EXCEPT !.block_hashes = MapInsert(@, header_hash(kv.v), kv.k),
                                   !.headers = MapInsert(@, kv.k, kv.v)],
                  res |-> Ok(<<>>)]
      [] kv.variant = "UnspentOutput" ->
            IF contains_key(d.utxos, kv.k)
            THEN [db |-> d, res |-> DuplicateKey]
            ELSE LET pushed == IF kv.update_mmr THEN push_output(d, kv.k, kv.v) ELSE d
                     index == find_leaf_index(pushed.range_proof_mmr.mmr, proof_hash(kv.v))
                 IN  IF index # NoIndex
                     THEN [db |-> [pushed EXCEPT !.utxos = MapInsert(@, kv.k, MerkleNode(index, kv.v))],
                           res |-> Ok(<<>>)]
                     ELSE [db |-> pushed, res |-> Ok(<<>>)]
      [] kv.variant = "TransactionKernel" ->
            IF contains_key(d.kernels, kv.k)
            THEN [db |-> d, res |-> DuplicateKey]
            ELSE LET pushed == IF kv.update_mmr
                               THEN [d EXCEPT !.kernel_mmr = mct_push(@, kv.k)]
                               ELSE d
                 IN  [db |-> [pushed EXCEPT !.kernels = MapInsert(@, kv.k, kv.v)],
                      res |-> Ok(<<>>)]
      [] kv.variant = "OrphanBlock" ->
            IF contains_key(d.orphans, kv.k)
            THEN [db |-> d, res |-> DuplicateKey]
            ELSE [db |-> [d EXCEPT !.orphans = MapInsert(@, kv.k, kv.v)], res |-> Ok(<<>>)]

\* a Delete that also tombstones the leaf of the output it removes
write_delete_tombstones(d, key) ==
    IF key.variant = "UnspentOutput" /\ key.k \in DOMAIN d.utxos
    THEN [d EXCEPT !.utxos = MapRemove(@, key.k),
                   !.utxo_mmr = mct_delete(@, d.utxos[key.k].index)]
    ELSE d

\* WriteOperation::Delete: the database after it (it cannot fail)
write_delete(d, key) ==
    CASE key.variant = "Metadata" -> d
      [] key.variant = "BlockHeader" ->
            IF key.k \in DOMAIN d.headers
            THEN [d EXCEPT !.headers = MapRemove(@, key.k),
                           !.block_hashes = MapRemove(@, header_hash(d.headers[key.k]))]
            ELSE d
      [] key.variant = "BlockHash" ->
            IF key.k \in DOMAIN d.block_hashes
            THEN [d EXCEPT !.block_hashes = MapRemove(@, key.k),
                           !.headers = MapRemove(@, d.block_hashes[key.k])]
            ELSE d
      [] key.variant = "UnspentOutput" -> [d EXCEPT !.utxos = MapRemove(@, key.k)]
      [] key.variant = "SpentOutput" -> [d EXCEPT !.stxos = MapRemove(@, key.k)]
      [] key.variant = "TransactionKernel" -> [d EXCEPT !.kernels = MapRemove(@, key.k)]
      [] key.variant = "OrphanBlock" -> [d EXCEPT !.orphans = MapRemove(@, key.k)]

\* a Spend that takes the hash of any kind of key
write_spend_any_key(d, key) ==
    LET r == spend_utxo(d, key.k)
    IN  IF ~r.moved
        THEN [db |-> r.db, res |-> Err("UnspendableInput", "")]
        ELSE [db |-> r.db, res |-> Ok(<<>>)]

\* a Spend that does not look at what spend_utxo returned
write_spend_unchecked(d, key) ==
    IF key.variant = "UnspentOutput"
    THEN [db |-> spend_utxo(d, key.k).db, res |-> Ok(<<>>)]
    ELSE [db |-> d, res |-> Err("InvalidOperation", "Only UTXOs can be spent")]

\* WriteOperation::Spend: (database, result)
write_spend(d, key) ==
    IF key.variant = "UnspentOutput"
    THEN LET r == spend_utxo(d, key.k)
         IN  IF ~r.moved
             THEN [db |-> r.db, res |-> Err("UnspendableInput", "")]
             ELSE [db |-> r.db, res |-> Ok(<<>>)]
    ELSE [db |-> d, res |-> Err("InvalidOperation", "Only UTXOs can be spent")]

\* an UnSpend that does not look at what unspend_stxo returned
write_unspend_unchecked(d, key) ==
    IF key.variant = "SpentOutput"
    THEN [db |-> unspend_stxo(d, key.k).db, res |-> Ok(<<>>)]
    ELSE [db |-> d, res |-> Err("InvalidOperation", "Only STXOs can be unspent")]

\* WriteOperation::UnSpend: (database, result)
write_unspend(d, key) ==
    IF key.variant = "SpentOutput"
    THEN LET r == unspend_stxo(d, key.k)
         IN  IF ~r.moved
             THEN [db |-> r.db, res |-> Err("UnspendError", "")]
             ELSE [db |-> r.db, res |-> Ok(<<>>)]
    ELSE [db |-> d, res |-> Err("InvalidOperation", "Only STXOs can be unspent")]

\* a CreateMmrCheckpoint that discards the pending changes
write_checkpoint_discards(d, tree) == with_tree_mmr(d, tree, mct_reset(tree_mmr(d, tree)))

\* WriteOperation::CreateMmrCheckpoint: commit the selected tracker
write_checkpoint(d, tree) == with_tree_mmr(d, tree, mct_commit(tree_mmr(d, tree)))

\* a RewindMmr of the Utxo tree that also resets the RangeProof tree
write_rewind_output_trees(d, tree, steps_back) ==
    LET t == tree_mmr(d, tree)
        one == with_tree_mmr(d, tree,
                   IF steps_back = 0 THEN mct_reset(t) ELSE mct_rewind(t, steps_back))
    IN  IF tree = "Utxo"
        THEN with_tree_mmr(one, "RangeProof", mct_reset(one.range_proof_mmr))
        ELSE one

\* a RewindMmr that rewinds by steps_back also when steps_back is 0
write_rewind_always(d, tree, steps_back) ==
    with_tree_mmr(d, tree, mct_rewind(tree_mmr(d, tree), steps_back + 1))

\* a RewindMmr that resets whatever steps_back is
write_rewind_resets(d, tree, steps_back) ==
    with_tree_mmr(d, tree, mct_reset(tree_mmr(d, tree)))

\* WriteOperation::RewindMmr: reset when steps_back = 0, rewind otherwise
write_rewind(d, tree, steps_back) ==
    IF steps_back = 0
    THEN with_tree_mmr(d, tree, mct_reset(tree_mmr(d, tree)))
    ELSE with_tree_mmr(d, tree, mct_rewind(tree_mmr(d, tree), steps_back))

\* the bounds of a specification: leaves of each output accumulator, leaves of
\* the kernel accumulator, checkpoints of each tracker
Limits(leaves, kernel_leaves, checkpoints) ==
    [leaves |-> leaves, kernel_leaves |-> kernel_leaves, checkpoints |-> checkpoints]

\* the operation would push or commit beyond the bounds, or rewind by more
\* checkpoints than the tracker holds
outside_model(d, op, lim) ==
    CASE op.op = "Insert" /\ op.kv.variant = "UnspentOutput" ->
            /\ ~contains_key(d.utxos, op.kv.k)
            /\ op.kv.update_mmr
            /\ (leaf_count(d.utxo_mmr) >= lim.leaves \/ leaf_count(d.range_proof_mmr) >= lim.leaves)
      [] op.op = "Insert" /\ op.kv.variant = "TransactionKernel" ->
            /\ ~contains_key(d.kernels, op.kv.k)
            /\ op.kv.update_mmr
            /\ leaf_count(d.kernel_mmr) >= lim.kernel_leaves
      [] op.op = "CreateMmrCheckpoint" ->
            checkpoint_count(tree_mmr(d, op.tree)) >= lim.checkpoints
      [] op.op = "RewindMmr" ->
            op.steps_back > checkpoint_count(tree_mmr(d, op.tree))
      [] OTHER -> FALSE

\* the dispatch of one operation: (database, result)
dispatch_op(d, op) ==
    CASE op.op = "Insert" -> write_insert(d, op.kv)
      [] op.op = "Delete" -> [db |-> write_delete(d, op.key), res |-> Ok(<<>>)]
      [] op.op = "Spend" -> write_spend(d, op.key)
      [] op.op = "UnSpend" -> write_unspend(d, op.key)
      [] op.op = "CreateMmrCheckpoint" ->
            [db |-> write_checkpoint(d, op.tree), res |-> Ok(<<>>)]
      [] op.op = "RewindMmr" ->
            [db |-> write_rewind(d, op.tree, op.steps_back), res |-> Ok(<<>>)]

\* one iteration of the loop of write: (database, result) of one operation,
\* taken within the bounds lim
apply_op_within(d, op, lim) ==
    IF outside_model(d, op, lim) THEN [db |-> d, res |-> OutOfModel] ELSE dispatch_op(d, op)

\* the bounds of the specifications of single blocks
BlockLimits == Limits(MaxLeaves, MaxLeaves, MaxCheckpoints)

\* one iteration of the loop of write within the bounds of single blocks
apply_op(d, op) == apply_op_within(d, op, BlockLimits)

\* a number of checkpoints no tracker reaches: commit keeps at most
\* max_history_len of them
FullHistory == max_history_len + 1

\* the bounds of the specification of the checkpoint history
HistoryLimits == Limits(MaxLeaves, MaxLeaves, FullHistory)

RECURSIVE write_ops_continues(_, _)
\* a loop that remembers the error and goes on with the next operation
write_ops_continues(d, ops) ==
    IF ops = <<>>
    THEN [db |-> d, res |-> Ok(<<>>)]
    ELSE LET r == apply_op(d, Head(ops))
             rest == write_ops_continues(r.db, Tail(ops))
         IN  IF ~r.res.ok THEN [db |-> rest.db, res |-> r.res] ELSE rest

RECURSIVE write_ops(_, _)
\* the loop of write: operations in order, returning at the first error
write_ops(d, ops) ==
    IF ops = <<>>
    THEN [db |-> d, res |-> Ok(<<>>)]
    ELSE LET r == apply_op(d, Head(ops))
         IN  IF ~r.res.ok THEN r ELSE write_ops(r.db, Tail(ops))

RECURSIVE write_ops_within(_, _, _)
\* the loop of write within the bounds lim
write_ops_within(d, ops, lim) ==
    IF ops = <<>>
    THEN [db |-> d, res |-> Ok(<<>>)]
    ELSE LET r == apply_op_within(d, Head(ops), lim)
         IN  IF ~r.res.ok THEN r ELSE write_ops_within(r.db, Tail(ops), lim)

----------------------------------------------------------------------------
(* Read operations (under the shared lock: they leave the database alone) *)

\* MemoryDatabase::fetch: the stored value, or none
fetch(d, key) ==
    CASE key.variant = "Metadata" ->
            IF key.k \in DOMAIN d.metadata THEN <<d.metadata[key.k]>> ELSE <<>>
      [] key.variant = "BlockHeader" ->
            IF key.k \in DOMAIN d.headers THEN <<d.headers[key.k]>> ELSE <<>>
      [] key.variant = "BlockHash" ->
            IF key.k \in DOMAIN d.block_hashes /\ d.block_hashes[key.k] \in DOMAIN d.headers
            THEN <<d.headers[d.block_hashes[key.k]]>> ELSE <<>>
      [] key.variant = "UnspentOutput" ->
            IF key.k \in DOMAIN d.utxos THEN <<d.utxos[key.k].value>> ELSE <<>>
      [] key.variant = "SpentOutput" ->
            IF key.k \in DOMAIN d.stxos THEN <<d.stxos[key.k].value>> ELSE <<>>
      [] key.variant = "TransactionKernel" ->
            IF key.k \in DOMAIN d.kernels THEN <<d.kernels[key.k]>> ELSE <<>>
      [] key.variant = "OrphanBlock" ->
            IF key.k \in DOMAIN d.orphans THEN <<d.orphans[key.k]>> ELSE <<>>

\* a contains that looks a Metadata key up like any other key
contains_looks_up_metadata(d, key) ==
    CASE key.variant = "Metadata" -> key.k \in DOMAIN d.metadata
      [] key.variant = "BlockHeader" -> key.k \in DOMAIN d.headers
      [] key.variant = "BlockHash" -> key.k \in DOMAIN d.block_hashes
      [] key.variant = "UnspentOutput" -> key.k \in DOMAIN d.utxos
      [] key.variant = "SpentOutput" -> key.k \in DOMAIN d.stxos
      [] key.variant = "TransactionKernel" -> key.k \in DOMAIN d.kernels
      [] key.variant = "OrphanBlock" -> key.k \in DOMAIN d.orphans

\* MemoryDatabase::contains
contains(d, key) ==
    CASE key.variant = "Metadata" -> TRUE
      [] key.variant = "BlockHeader" -> key.k \in DOMAIN d.headers
      [] key.variant = "BlockHash" -> key.k \in DOMAIN d.block_hashes
      [] key.variant = "UnspentOutput" -> key.k \in DOMAIN d.utxos
      [] key.variant = "SpentOutput" -> key.k \in DOMAIN d.stxos
      [] key.variant = "TransactionKernel" -> key.k \in DOMAIN d.kernels
      [] key.variant = "OrphanBlock" -> key.k \in DOMAIN d.orphans

\* MemoryDatabase::fetch_mmr_root
fetch_mmr_root(d, tree) == get_merkle_root(tree_mmr(d, tree).mmr)

\* MemoryDatabase::fetch_mmr_only_root
fetch_mmr_only_root(d, tree) == get_mmr_only_root(tree_mmr(d, tree).mmr)

RECURSIVE push_all(_, _)
\* the additions pushed onto the scratch accumulator in order
push_all(m, additions) ==
    IF additions = <<>> THEN m ELSE push_all(mmr_push(m, Head(additions)), Tail(additions))

RECURSIVE delete_known(_, _, _)
\* the deletions of known UTXOs applied to the scratch accumulator in order
delete_known(m, utxos, deletions) ==
    IF deletions = <<>>
    THEN m
    ELSE LET hash == Head(deletions)
         IN  delete_known(IF hash \in DOMAIN utxos THEN mmr_delete(m, utxos[hash].index) ELSE m,
                          utxos, Tail(deletions))

\* a scratch accumulator that takes the deletions for every tree
calculate_scratch_any_tree(d, tree, additions, deletions) ==
    delete_known(push_all(prune_mutable_mmr(tree_mmr(d, tree)), additions), d.utxos, deletions)

\* the scratch accumulator of calculate_mmr_root after its pushes and deletes
calculate_scratch(d, tree, additions, deletions) ==
    LET pruned_mmr == push_all(prune_mutable_mmr(tree_mmr(d, tree)), additions)
    IN  IF tree = "Utxo" THEN delete_known(pruned_mmr, d.utxos, deletions) ELSE pruned_mmr

\* a calculate_mmr_root that works on the tracker's accumulator itself
calculate_mmr_root_in_place(d, tree, additions, deletions) ==
    LET scratch == calculate_scratch(d, tree, additions, deletions)
    IN  [db |-> with_tree_mmr(d, tree, [tree_mmr(d, tree) EXCEPT !.mmr = scratch]),
         res |-> Ok(get_merkle_root(scratch))]

\* MemoryDatabase::calculate_mmr_root: (database, root); the database is the
\* one it was given, the scratch accumulator is dropped
calculate_mmr_root(d, tree, additions, deletions) ==
    [db |-> d, res |-> Ok(get_merkle_root(calculate_scratch(d, tree, additions, deletions)))]

\* MemoryDatabase::fetch_last_header: the header at height header_count - 1,
\* or none
fetch_last_header(d) ==
    LET header_count == Cardinality(DOMAIN d.headers)
    IN  IF header_count >= 1
        THEN LET k == header_count - 1
             IN  Ok(IF k \in DOMAIN d.headers THEN <<d.headers[k]>> ELSE <<>>)
        ELSE Ok(<<>>)

\* an assign_mmr that always assigns to the kernel accumulator
assign_mmr_kernel_only(d, tree, base_state) ==
    [d EXCEPT !.kernel_mmr = mct_assign(@, base_state)]

\* MemoryDatabase::assign_mmr: the database after it
assign_mmr(d, tree, base_state) ==
    with_tree_mmr(d, tree, mct_assign(tree_mmr(d, tree), base_state))

\* a 64-bit unsigned number, written wraps * 2^64 + rest with a small rest
\* (negative when wraps = 1): the numbers near 0 and the numbers near 2^64
U64(wraps, rest) == [wraps |-> wraps, rest |-> rest]

\* a < b on such numbers
u64_lt(a, b) == a.wraps < b.wraps \/ (a.wraps = b.wraps /\ a.rest < b.rest)

\* a thread that panics returns nothing
Panic(msg) == Err("Panic", msg)

\* a horizon that forgets to subtract the checkpoints
fetch_horizon_block_height_tip_only(d) == {Ok(U64(0, Cardinality(DOMAIN d.headers)))}

\* MemoryDatabase::fetch_horizon_block_height: the outcomes of the call.  The
\* subtraction is on usize: when the checkpoints outnumber the headers it
\* panics in a build with overflow checks and wraps around in one without
fetch_horizon_block_height(d) ==
    LET tip_height == Cardinality(DOMAIN d.headers)
        count == checkpoint_count(d.kernel_mmr)
    IN  IF tip_height >= count
        THEN {Ok(U64(0, tip_height - count))}
        ELSE {Panic("attempt to subtract with overflow"), Ok(U64(1, tip_height - count))}

\* a checkpoint lookup that takes the height for the index
fetch_mmr_checkpoint_unchecked(d, tree, height, horizon) ==
    LET cp == get_checkpoint(tree_mmr(d, tree), height.rest)
    IN  IF cp.ok THEN cp ELSE Err("AccessError", "MMR Checkpoint error")

\* MemoryDatabase::fetch_mmr_checkpoint, given the outcome of its call of
\* fetch_horizon_block_height
fetch_mmr_checkpoint(d, tree, height, horizon) ==
    IF ~horizon.ok
    THEN horizon
    ELSE IF u64_lt(height, horizon.val)
    THEN Err("BeyondPruningHorizon", "")
    ELSE LET index == height.rest - horizon.val.rest
             cp == get_checkpoint(tree_mmr(d, tree), index)
         IN  IF cp.ok THEN cp ELSE Err("AccessError", "MMR Checkpoint error")

----------------------------------------------------------------------------
(* The inputs *)

\* the outputs inserted: (key, value) with value <= key, so that two keys may
\* carry outputs with the same range proof and one key may carry two outputs
OutputPairs == {p \in Hashes \X Values : p[2] <= p[1]}

\* every Insert of an output
InsertUtxoOps ==
    {Insert(DbKeyValuePair("UnspentOutput", p[1], p[2], u)) : p \in OutputPairs, u \in BOOLEAN}

\* the operations on the records of outputs
UtxoOps ==
    InsertUtxoOps
    \cup {Delete(DbKey(variant, k)) : variant \in {"UnspentOutput", "SpentOutput"}, k \in Hashes}
    \cup {Spend(DbKey("UnspentOutput", k)) : k \in Hashes}
    \cup {UnSpend(DbKey("SpentOutput", k)) : k \in Hashes}

\* the two accumulators that follow the outputs
OutputTrees == {"Utxo", "RangeProof"}

\* a Spend of an output followed by its UnSpend
SpendUnSpend(h) == <<Spend(DbKey("UnspentOutput", h)), UnSpend(DbKey("SpentOutput", h))>>

\* a checkpoint of both output accumulators, as at the end of a block
CommitOutputs == <<CreateMmrCheckpoint("Utxo"), CreateMmrCheckpoint("RangeProof")>>

\* a reset or rewind of both output accumulators, as in a reorganisation
RewindOutputs(s) == <<RewindMmr("Utxo", s), RewindMmr("RangeProof", s)>>

\* the batches of the output life cycle
UtxoBatches ==
    {<<op>> : op \in UtxoOps}
    \cup {SpendUnSpend(h) : h \in Hashes}
    \cup {CommitOutputs}
    \cup {RewindOutputs(s) : s \in 0..MaxStepsBack}

\* every sequence over a set of at most n elements
SeqsUpTo(S, n) == UNION {[1..m -> S] : m \in 0..n}

\* the hash lists given to calculate_mmr_root
HashLists == SeqsUpTo(Hashes, MaxListLen)

\* the operations of the batch-order specification: some succeed, some fail,
\* depending on the state the operations before them left
BatchOps ==
    {Insert(DbKeyValuePair("TransactionKernel", 1, v, TRUE)) : v \in Values}
    \cup {Delete(DbKey("TransactionKernel", 1)),
     Insert(DbKeyValuePair("UnspentOutput", 1, 1, TRUE)),
     Spend(DbKey("UnspentOutput", 1)),
     UnSpend(DbKey("SpentOutput", 1))}

\* the batches of the batch-order specification
OrderedBatches == SeqsUpTo(BatchOps, MaxBatchLen)

\* the keys of the key/value specification: one key per table, so that every
\* second Insert meets an occupied key
TableKeys == {1}

\* Insert of every kind of pair
TableInserts ==
    {Insert(DbKeyValuePair(variant, k, v, FALSE)) :
        variant \in {"Metadata", "BlockHeader", "OrphanBlock"}, k \in TableKeys, v \in Values}
    \cup {Insert(DbKeyValuePair(variant, k, v, u)) :
        variant \in {"UnspentOutput", "TransactionKernel"}, k \in TableKeys, v \in Values,
        u \in BOOLEAN}

\* Delete of every kind of key
TableDeletes ==
    {Delete(DbKey(variant, k)) :
        variant \in {"Metadata", "BlockHeader", "UnspentOutput", "SpentOutput",
                     "TransactionKernel", "OrphanBlock"}, k \in TableKeys}
    \cup {Delete(DbKey("BlockHash", header_hash(v))) : v \in Values}

\* the batches of the key/value specification
TableBatches == {<<op>> : op \in TableInserts \cup TableDeletes}

\* the batches that build the states calculate_mmr_root is called in
QueryBatches ==
    {<<op>> : op \in {Insert(DbKeyValuePair("UnspentOutput", k, k, TRUE)) : k \in Hashes}
                     \cup {Insert(DbKeyValuePair("TransactionKernel", 1, 1, TRUE))}
                     \cup {Spend(DbKey("UnspentOutput", k)) : k \in Hashes}}
    \cup {CommitOutputs}

\* the lists of outputs pushed before a checkpoint: distinct hashes
PushLists ==
    {l \in SeqsUpTo(Hashes, MaxLeaves) : l # <<>> /\ \A i, j \in 1..Len(l) : l[i] = l[j] => i = j}

\* Insert of each output of a list, value = key, with update_mmr = true
InsertAll(l) == [i \in 1..Len(l) |-> Insert(DbKeyValuePair("UnspentOutput", l[i], l[i], TRUE))]

\* pushes, a checkpoint, a delete of the m-th pushed leaf, a checkpoint, and a
\* rewind by one checkpoint, all on the UTXO accumulator
PushCommitDeleteCommitRewind(l, m) ==
    InsertAll(l) \o <<CreateMmrCheckpoint("Utxo"), Spend(DbKey("UnspentOutput", l[m])),
                      CreateMmrCheckpoint("Utxo"), RewindMmr("Utxo", 1)>>

\* the batches of the checkpoint history of the UTXO accumulator
HistoryBatches ==
    {<<op>> : op \in {Insert(DbKeyValuePair("UnspentOutput", k, k, TRUE)) : k \in Hashes}
                     \cup {Spend(DbKey("UnspentOutput", k)) : k \in Hashes}
                     \cup {CreateMmrCheckpoint("Utxo")}
                     \cup {RewindMmr("Utxo", s) : s \in 0..MaxStepsBack}}
    \cup UNION {{PushCommitDeleteCommitRewind(l, m) : m \in 1..Len(l)} : l \in PushLists}

\* the accumulator states given to assign_mmr: up to MaxLeaves distinct leaf
\* hashes and any set of their positions as tombstones
LeafNodes ==
    UNION {{MutableMmrLeafNodes(l, dl) : dl \in SUBSET (0..(Len(l) - 1))} :
              l \in PushLists \cup {<<>>}}

\* the batches that give the kernel tracker leaves and checkpoints of its own
\* before a state is assigned
AssignBatches ==
    {<<Insert(DbKeyValuePair("TransactionKernel", 1, 1, TRUE))>>,
     <<CreateMmrCheckpoint("Kernel")>>}

\* block heights
Heights == 0..MaxHeight

\* the number of blocks of a full chain
NumBlocks == MaxHeight + 1

\* the bounds of the specification of the horizon: one kernel per block
HorizonLimits == Limits(MaxLeaves, NumBlocks, FullHistory)

\* the hash of the kernel of the block at height k
block_kernel(k) == k + 1

\* the block at height k: its header, its kernel, and a checkpoint of the
\* kernel accumulator
Block(k) ==
    <<Insert(DbKeyValuePair("BlockHeader", k, k + 1, FALSE)),
      Insert(DbKeyValuePair("TransactionKernel", block_kernel(k), 1, TRUE)),
      CreateMmrCheckpoint("Kernel")>>

\* the other batches of the specification of the horizon: a checkpoint with no
\* block, the deletion of the oldest or the newest header, a rewind
HorizonBatches ==
    {<<CreateMmrCheckpoint("Kernel")>>}
    \cup {<<Delete(DbKey("BlockHeader", k))>> : k \in {0, MaxHeight}}
    \cup {<<RewindMmr("Kernel", s)>> : s \in 1..MaxStepsBack}

\* the batches of the header tables: Insert of any header at any height,
\* Delete by height and Delete by hash
HeaderBatches ==
    {<<Insert(DbKeyValuePair("BlockHeader", k, v, FALSE))>> : k \in Heights, v \in Values}
    \cup {<<Delete(DbKey("BlockHeader", k))>> : k \in Heights}
    \cup {<<Delete(DbKey("BlockHash", header_hash(v)))>> : v \in Values}

\* every kind of key
KeyVariants ==
    {"Metadata", "BlockHeader", "BlockHash", "UnspentOutput", "SpentOutput",
     "TransactionKernel", "OrphanBlock"}

\* Spend and UnSpend with every kind of key
VariantBatches ==
    {<<Spend(DbKey(variant, k))>> : variant \in KeyVariants, k \in TableKeys}
    \cup {<<UnSpend(DbKey(variant, k))>> : variant \in KeyVariants, k \in TableKeys}

\* the operations that leave pending changes in a tracker: Insert of an output
\* or of a kernel with update_mmr, and Spend
PendingOps ==
    {Insert(DbKeyValuePair(variant, k, k, TRUE)) :
        variant \in {"UnspentOutput", "TransactionKernel"}, k \in TableKeys}
    \cup {Spend(DbKey("UnspentOutput", k)) : k \in TableKeys}

\* a checkpoint of a tree, an operation that leaves pending changes, and a
\* reset of the tree
CommitChangeReset(tree, op) == <<CreateMmrCheckpoint(tree), op, RewindMmr(tree, 0)>>

\* the batches on the three trees: tracked inserts, Spend and UnSpend with
\* every kind of key, Delete of a kernel, checkpoints, resets and rewinds
TreeBatches ==
    {<<op>> : op \in PendingOps}
    \cup VariantBatches
    \cup {<<Delete(DbKey("TransactionKernel", k))>> : k \in TableKeys}
    \cup {<<CreateMmrCheckpoint(tree)>> : tree \in MmrTree}
    \cup {<<RewindMmr(tree, s)>> : tree \in MmrTree, s \in 0..MaxStepsBack}
    \cup {CommitChangeReset(tree, op) : tree \in MmrTree, op \in PendingOps}

\* the batches written by concurrent threads: a block of a header and a
\* checkpoint of the kernel tree, and its removal with a reset of the tree
ThreadBatches ==
    {<<Insert(DbKeyValuePair("BlockHeader", 0, 1, FALSE)), CreateMmrCheckpoint("Kernel")>>,
     <<Delete(DbKey("BlockHeader", 0)), RewindMmr("Kernel", 0)>>}

\* the read operations called by concurrent threads
ReadCalls == {"fetch_last_header", "fetch_mmr_checkpoint"}

\* the accumulator state imported by concurrent threads
ThreadStates == {MutableMmrLeafNodes(<<1>>, {})}

----------------------------------------------------------------------------
(* The state machine *)

\* MemoryDatabase::new and DedupMiddleware::new, with no call under way
Init ==
    /\ db = NewDatabase
    /\ result = [call |-> "new", ret |-> Ok(<<>>)]
    /\ lock = NewLock(FALSE)
    /\ threads = [t \in Threads |-> Idle]
    /\ dedup = NewDedup

\* MemoryDatabase::write of one batch
write(tx) ==
    LET r == write_ops(db, tx)
    IN  /\ r.res.kind # "OutOfModel"
        /\ db' = r.db
        /\ result' = [call |-> "write", ret |-> r.res]
        /\ UNCHANGED others

\* MemoryDatabase::calculate_mmr_root as a call
CalculateMmrRoot(tree, additions, deletions) ==
    LET r == calculate_mmr_root(db, tree, additions, deletions)
    IN  /\ db' = r.db
        /\ result' = [call |-> "calculate_mmr_root", ret |-> r.res]
        /\ UNCHANGED others

\* write of a batch of the output life cycle
WriteUtxo == \E tx \in UtxoBatches : write(tx)

\* write of a batch of up to MaxBatchLen operations
WriteOrdered == \E tx \in OrderedBatches : write(tx)

\* write of one Insert or Delete on any table
WriteTable == \E tx \in TableBatches : write(tx)

\* write of a batch that prepares a query
WriteQuery == \E tx \in QueryBatches : write(tx)

\* calculate_mmr_root with any tree, additions and deletions
CalculateRoot ==
    \E tree \in MmrTree, additions \in HashLists, deletions \in HashLists :
        CalculateMmrRoot(tree, additions, deletions)

\* MemoryDatabase::write of one batch within the bounds lim
write_within(tx, lim) ==
    LET r == write_ops_within(db, tx, lim)
    IN  /\ r.res.kind # "OutOfModel"
        /\ db' = r.db
        /\ result' = [call |-> "write", ret |-> r.res]
        /\ UNCHANGED others

\* write of a batch of the checkpoint history
WriteHistory == \E tx \in HistoryBatches : write_within(tx, HistoryLimits)

\* write of the block at the next height, the number of stored headers
AddBlock ==
    /\ Cardinality(DOMAIN db.headers) \in Heights
    /\ write_within(Block(Cardinality(DOMAIN db.headers)), HorizonLimits)

\* write of a checkpoint, a header deletion or a rewind
WriteHorizon == \E tx \in HorizonBatches : write_within(tx, HorizonLimits)

\* write of a checkpoint of the Utxo tree
WriteUtxoCheckpoint == write_within(<<CreateMmrCheckpoint("Utxo")>>, HorizonLimits)

\* MemoryDatabase::fetch_horizon_block_height as a call with outcome o
FetchHorizonBlockHeight(o) ==
    /\ o \in fetch_horizon_block_height(db)
    /\ db' = db
    /\ result' = [call |-> "fetch_horizon_block_height", ret |-> o]
    /\ UNCHANGED others

\* MemoryDatabase::fetch_mmr_checkpoint as a call whose inner call of
\* fetch_horizon_block_height has outcome o
FetchMmrCheckpoint(tree, height, o) ==
    /\ o \in fetch_horizon_block_height(db)
    /\ db' = db
    /\ result' = [call |-> "fetch_mmr_checkpoint",
                  ret |-> fetch_mmr_checkpoint(db, tree, U64(0, height), o)]
    /\ UNCHANGED others

\* fetch_horizon_block_height with any outcome the build can produce
FetchHorizon == \E o \in fetch_horizon_block_height(db) : FetchHorizonBlockHeight(o)

\* fetch_mmr_checkpoint of any tree at any height
FetchCheckpoint ==
    \E tree \in MmrTree, height \in Heights, o \in fetch_horizon_block_height(db) :
        FetchMmrCheckpoint(tree, height, o)

\* MemoryDatabase::assign_mmr as a call
AssignMmr(tree, base_state) ==
    /\ db' = assign_mmr(db, tree, base_state)
    /\ result' = [call |-> "assign_mmr", ret |-> Ok(<<>>)]
    /\ UNCHANGED others

\* assign_mmr of any state to any tree
AssignTree == \E tree \in MmrTree, base_state \in LeafNodes : AssignMmr(tree, base_state)

\* write of a batch on the kernel tracker
WriteAssign == \E tx \in AssignBatches : write(tx)

\* write of one Insert or Delete of a header
WriteHeader == \E tx \in HeaderBatches : write(tx)

\* write of one Spend of an output
WriteSpend == \E k \in TableKeys : write(<<Spend(DbKey("UnspentOutput", k))>>)

\* write of a batch on the three trees
WriteTree == \E tx \in TreeBatches : write(tx)

\* MemoryDatabase::fetch_last_header as a call
FetchLastHeader ==
    /\ db' = db
    /\ result' = [call |-> "fetch_last_header", ret |-> fetch_last_header(db)]
    /\ UNCHANGED others

\* a database shared by threads, on a platform of either kind of lock
InitThreads ==
    /\ db = NewDatabase
    /\ result = [call |-> "new", ret |-> Ok(<<>>)]
    /\ lock \in {NewLock(writers_first) : writers_first \in BOOLEAN}
    /\ threads = [t \in Threads |-> Idle]
    /\ dedup = NewDedup

\* some thread waits for the write guard
writer_waits == \E u \in Threads : threads[u].pc \in {"write_lock", "assign_lock"}

\* thread t returns ret from its call, with the guards released as l says
Return(t, ret, l) ==
    /\ result' = [call |-> threads[t].call, ret |-> ret]
    /\ threads' = [threads EXCEPT ![t] = Idle]
    /\ lock' = l

\* the lock once thread t dropped every guard it held
released(l, t) ==
    [l EXCEPT !.writer = IF @ = t THEN NoThread ELSE @, !.readers[t] = 0]

\* thread t calls write(tx)
CallWrite(t, tx) ==
    /\ threads[t].pc = "idle"
    /\ threads' = [threads EXCEPT ![t] = Calling("write_lock", "write", tx, Idle.base_state)]
    /\ UNCHANGED <<db, result, lock, dedup>>

\* write: self.db.write() returns to thread t, with the guard or poisoned
WriteLock(t) ==
    /\ threads[t].pc = "write_lock"
    /\ can_write(lock)
    /\ IF db_write_access(lock).ok
       THEN /\ lock' = [lock EXCEPT !.writer = t]
            /\ threads' = [threads EXCEPT ![t].pc = "write_loop"]
            /\ UNCHANGED result
       ELSE Return(t, db_write_access(lock), lock)
    /\ UNCHANGED <<db, dedup>>

\* write: one iteration of the loop over tx.operations by thread t, and the
\* return when the operation fails or was the last one
WriteOp(t) ==
    /\ threads[t].pc = "write_loop"
    /\ LET tx == threads[t].tx
           r == dispatch_op(db, tx[threads[t].applied + 1])
       IN  /\ db' = r.db
           /\ IF ~r.res.ok \/ threads[t].applied + 1 = Len(tx)
              THEN Return(t, r.res, released(lock, t))
              ELSE /\ threads' = [threads EXCEPT ![t].applied = @ + 1]
                   /\ lock' = write_guard_in_loop(lock, t)
                   /\ UNCHANGED result
    /\ UNCHANGED dedup

\* a panic of thread t inside the loop of write: the write guard is dropped
\* while the thread unwinds, which poisons the lock
WritePanic(t) ==
    /\ threads[t].pc = "write_loop"
    /\ lock' = [released(lock, t) EXCEPT !.poisoned = TRUE]
    /\ threads' = [threads EXCEPT ![t].pc = "panicked"]
    /\ UNCHANGED <<db, result, dedup>>

\* thread t calls a read operation
CallRead(t, call) ==
    /\ threads[t].pc = "idle"
    /\ threads' = [threads EXCEPT ![t] = Calling("read_lock", call, <<>>, Idle.base_state)]
    /\ UNCHANGED <<db, result, lock, dedup>>

\* a read operation: self.db_access() returns to thread t, with the guard or
\* poisoned; fetch_mmr_checkpoint goes on to call fetch_horizon_block_height
ReadLock(t) ==
    /\ threads[t].pc = "read_lock"
    /\ can_read(lock, writer_waits)
    /\ IF db_access(lock).ok
       THEN /\ lock' = [lock EXCEPT !.readers[t] = @ + 1]
            /\ threads' = [threads EXCEPT ![t].pc =
                    IF threads[t].call = "fetch_mmr_checkpoint" THEN "horizon_lock" ELSE "read"]
            /\ UNCHANGED result
       ELSE Return(t, db_access(lock), lock)
    /\ UNCHANGED <<db, dedup>>

\* fetch_mmr_checkpoint: self.db_access() of the fetch_horizon_block_height it
\* calls returns to thread t, which holds a read guard already
HorizonLock(t) ==
    /\ threads[t].pc = "horizon_lock"
    /\ can_read(lock, writer_waits)
    /\ IF db_access(lock).ok
       THEN /\ lock' = [lock EXCEPT !.readers[t] = @ + 1]
            /\ threads' = [threads EXCEPT ![t].pc = "read"]
            /\ UNCHANGED result
       ELSE Return(t, db_access(lock), released(lock, t))
    /\ UNCHANGED <<db, dedup>>

\* the body of the read operation of thread t under its guards, and its return
Read(t) ==
    /\ threads[t].pc = "read"
    /\ \E o \in fetch_horizon_block_height(db) :
          Return(t,
                 IF threads[t].call = "fetch_mmr_checkpoint"
                 THEN fetch_mmr_checkpoint(db, "Kernel", U64(0, 0), o)
                 ELSE fetch_last_header(db),
                 released(lock, t))
    /\ UNCHANGED <<db, dedup>>

\* thread t calls assign_mmr(Kernel, base_state)
CallAssign(t, base_state) ==
    /\ threads[t].pc = "idle"
    /\ threads' = [threads EXCEPT ![t] = Calling("assign_lock", "assign_mmr", <<>>, base_state)]
    /\ UNCHANGED <<db, result, lock, dedup>>

\* assign_mmr: self.db.write() returns to thread t, with the guard or poisoned
AssignLock(t) ==
    /\ threads[t].pc = "assign_lock"
    /\ can_write(lock)
    /\ IF db_write_access(lock).ok
       THEN /\ lock' = [lock EXCEPT !.writer = t]
            /\ threads' = [threads EXCEPT ![t].pc = "assign"]
            /\ UNCHANGED result
       ELSE Return(t, db_write_access(lock), lock)
    /\ UNCHANGED <<db, dedup>>

\* assign_mmr: the assignment by thread t under the write guard, and its return
Assign(t) ==
    /\ threads[t].pc = "assign"
    /\ db' = assign_mmr(db, "Kernel", threads[t].base_state)
    /\ Return(t, Ok(<<>>), released(lock, t))
    /\ UNCHANGED dedup

\* a thread starts a call
Call ==
    \E t \in Threads :
        \/ \E tx \in ThreadBatches : CallWrite(t, tx)
        \/ \E call \in ReadCalls : CallRead(t, call)
        \/ \E base_state \in ThreadStates : CallAssign(t, base_state)

\* a thread is given the lock it waits for, or the error of a poisoned lock
Acquire == \E t \in Threads : WriteLock(t) \/ ReadLock(t) \/ HorizonLock(t) \/ AssignLock(t)

\* a thread goes on under the guard it holds
Proceed == \E t \in Threads : WriteOp(t) \/ Read(t) \/ Assign(t)

\* a thread panics under the write guard
WriterPanics == \E t \in Threads : WritePanic(t)

\* DedupMiddleware::call of an inbound message
ProcessMessage(message, reply, served) ==
    LET r == process_message(dedup, message, reply, served)
    IN  /\ dedup' = r.dedup
        /\ result' = [call |-> "process_message", ret |-> r.ret]
        /\ UNCHANGED <<db, lock, threads>>

\* an inbound message with any reply of the requester and of the next service
Inbound ==
    \E message \in Messages :
        \E reply \in insert_message_signature(dedup.signatures, message.origin_signature),
           served \in ServiceResults :
            ProcessMessage(message, reply, served)

Next == WriteUtxo

\* the life cycle of outputs: insert, delete, spend, unspend, checkpoint, rewind
Spec == Init /\ [][Next]_vars

NextBatch == WriteOrdered

\* batches of several operations, some of which fail
SpecBatch == Init /\ [][NextBatch]_vars

NextTables == WriteTable

\* Insert and Delete on every table
SpecTables == Init /\ [][NextTables]_vars

NextHistory == WriteHistory

\* checkpoints and rewinds of the UTXO accumulator over the retention window
SpecHistory == Init /\ [][NextHistory]_vars

NextHorizon == AddBlock \/ WriteHorizon \/ FetchHorizon \/ FetchCheckpoint

\* blocks, kernel checkpoints and the pruning horizon
SpecHorizon == Init /\ [][NextHorizon]_vars

NextAssign == WriteAssign \/ AssignTree

\* accumulator states imported between writes
SpecAssign == Init /\ [][NextAssign]_vars

NextHeaders == WriteHeader \/ FetchLastHeader

\* the headers table and its index by hash
SpecHeaders == Init /\ [][NextHeaders]_vars

NextThreads == Call \/ Acquire \/ Proceed \/ WriterPanics

\* concurrent calls of write, assign_mmr and read operations on one database
SpecThreads == InitThreads /\ [][NextThreads]_vars

NextDedup == Inbound

\* inbound messages through the duplicate filter
SpecDedup == Init /\ [][NextDedup]_vars

NextRecords == WriteTable \/ WriteSpend

\* Insert and Delete on every table, with outputs spent in between
SpecRecords == Init /\ [][NextRecords]_vars

NextCheckpoints == NextHorizon \/ WriteUtxoCheckpoint

\* blocks and the pruning horizon, with checkpoints of the Utxo tree as well
SpecCheckpoints == Init /\ [][NextCheckpoints]_vars

NextTrees == WriteTree

\* the three accumulators under inserts, spends, checkpoints and rewinds
SpecTrees == Init /\ [][NextTrees]_vars

NextQuery == WriteQuery \/ CalculateRoot

\* hypothetical roots computed between writes
SpecQuery == Init /\ [][NextQuery]_vars

----------------------------------------------------------------------------
(* Shorthands of the properties *)

UTXO(h) == DbKey("UnspentOutput", h)
STXO(h) == DbKey("SpentOutput", h)

\* the tombstoned leaves of the UTXO accumulator
Tombstones(d) == d.utxo_mmr.mmr.deleted

\* a leaf of the UTXO accumulator that exists and is not tombstoned
LiveUtxoLeaf(d, index) ==
    index >= 0 /\ index < leaf_count(d.utxo_mmr) /\ index \notin Tombstones(d)

\* the leaves of the UTXO accumulator that carry hash h
LeavesOf(d, h) == {i \in 0..(leaf_count(d.utxo_mmr) - 1) : d.utxo_mmr.mmr.hashes[i + 1] = h}

\* the database after the first n operations of a batch, whatever they returned
RECURSIVE state_after(_, _, _)
state_after(d, tx, n) ==
    IF n = 0 THEN d ELSE apply_op(state_after(d, tx, n - 1), tx[n]).db

\* the result of the n-th operation of a batch, applied after the ones before it
result_of(d, tx, n) == apply_op(state_after(d, tx, n - 1), tx[n]).res

\* the positions of a batch whose operation fails when all before it succeeded
FirstFailure(d, tx) ==
    {i \in 1..Len(tx) : /\ ~result_of(d, tx, i).ok
                        /\ \A j \in 1..(i - 1) : result_of(d, tx, j).ok}

----------------------------------------------------------------------------
(* C1: for a hash h that is a key of the UTXO table, the batch Spend(h),       *)
(* UnSpend(h) succeeds and ends with h unspent again and not spent, with the   *)
(* same output value and the same stored leaf index as before the Spend.       *)
C1_SpendUnSpendRoundTrip ==
    [][\A h \in Hashes :
          (contains(db, UTXO(h)) /\ write(SpendUnSpend(h)))
          => /\ result'.ret.ok
             /\ contains(db', UTXO(h))
             /\ ~contains(db', STXO(h))
             /\ fetch(db', UTXO(h)) = fetch(db, UTXO(h))
             /\ db'.utxos[h].index = db.utxos[h].index]_vars

\* a state after a Spend and an UnSpend of an output: it is unspent again, not
\* spent, and the leaf its Spend tombstoned is still tombstoned
C1_Witness ==
    \E h \in DOMAIN db.utxos :
        /\ h \notin DOMAIN db.stxos
        /\ db.utxos[h].index \in db.utxo_mmr.current_deletions
        /\ result.call = "write" /\ result.ret.ok

(* C2: Spend of a hash that is not a key of the UTXO table fails with          *)
(* UnspendableInput and leaves the UTXO table, the STXO table and the UTXO     *)
(* accumulator as they were, also when the hash is a key of the STXO table.    *)
C2_SpendUnknownFails ==
    [][\A h \in Hashes :
          (~contains(db, UTXO(h)) /\ write(<<Spend(UTXO(h))>>))
          => /\ result'.ret = Err("UnspendableInput", "")
             /\ db'.utxos = db.utxos
             /\ db'.stxos = db.stxos
             /\ db'.utxo_mmr = db.utxo_mmr]_vars

\* a state after a failed Spend of a hash that is spent already: no output is
\* unspent, every hash is a key of the STXO table
C2_Witness ==
    /\ result.call = "write"
    /\ result.ret.kind = "UnspendableInput"
    /\ DOMAIN db.utxos = {}
    /\ DOMAIN db.stxos = Hashes

(* C3: the key sets of the UTXO table and of the STXO table are disjoint in    *)
(* every reachable state.                                                      *)
C3_UtxoStxoDisjoint == DOMAIN db.utxos \cap DOMAIN db.stxos = {}

(* C4: the leaf index stored with each record of the UTXO table refers to an   *)
(* existing, non-tombstoned leaf of the UTXO accumulator.                      *)
C4_UtxoIndexIsLiveLeaf ==
    \A h \in DOMAIN db.utxos : LiveUtxoLeaf(db, db.utxos[h].index)

(* C5: for each record of the STXO table the UTXO accumulator leaf at the      *)
(* stored index is tombstoned.                                                 *)
C5_StxoLeafTombstoned ==
    \A h \in DOMAIN db.stxos :
        /\ db.stxos[h].index < leaf_count(db.utxo_mmr)
        /\ db.stxos[h].index \in Tombstones(db)

(* C6: for a hash h that is not a key of the UTXO table, a successful Insert   *)
(* of an output under h with update_mmr = true makes contains(UnspentOutput h) *)
(* true, adds exactly one leaf to the UTXO accumulator and one to the          *)
(* range-proof accumulator, and leaves the kernel accumulator unchanged.       *)
C6_InsertUtxoAddsOneLeaf ==
    [][\A h \in Hashes, v \in Values :
          (/\ ~contains(db, UTXO(h))
           /\ write(<<Insert(DbKeyValuePair("UnspentOutput", h, v, TRUE))>>)
           /\ result'.ret.ok)
          => /\ contains(db', UTXO(h))
             /\ leaf_count(db'.utxo_mmr) = leaf_count(db.utxo_mmr) + 1
             /\ leaf_count(db'.range_proof_mmr) = leaf_count(db.range_proof_mmr) + 1
             /\ db'.kernel_mmr = db.kernel_mmr]_vars

\* a state after such an Insert: the newest leaf of the UTXO accumulator is a
\* pending addition that carries the hash of an unspent output, the newest
\* leaf of the range-proof accumulator its proof hash
C6_Witness ==
    \E h \in DOMAIN db.utxos :
        /\ result.call = "write" /\ result.ret.ok
        /\ db.utxo_mmr.current_additions # <<>>
        /\ db.range_proof_mmr.current_additions # <<>>
        /\ db.utxo_mmr.mmr.hashes[leaf_count(db.utxo_mmr)] = h
        /\ db.range_proof_mmr.mmr.hashes[leaf_count(db.range_proof_mmr)]
               = proof_hash(db.utxos[h].value)

(* C7: Spend of a known UTXO h moves its record to the STXO table with index   *)
(* and value preserved and tombstones its own leaf: exactly one leaf becomes   *)
(* tombstoned, and it is a leaf whose hash is h.                               *)
C7_SpendTombstonesOwnLeaf ==
    [][\A h \in Hashes :
          (contains(db, UTXO(h)) /\ write(<<Spend(UTXO(h))>>))
          => /\ ~contains(db', UTXO(h))
             /\ contains(db', STXO(h))
             /\ db'.stxos[h] = db.utxos[h]
             /\ \E i \in LeavesOf(db, h) :
                    /\ i \notin Tombstones(db)
                    /\ Tombstones(db') = Tombstones(db) \cup {i}]_vars

(* C8: write applies the operations of a batch in order and stops at the first *)
(* failing one: it returns that operation's error, the operations before it    *)
(* stay applied (no rollback) and the ones after it are never applied; a batch *)
(* with no failing operation is applied whole and returns Ok.                  *)
C8_BatchStopsAtFirstFailure ==
    [][\A tx \in OrderedBatches :
          write(tx)
          => IF FirstFailure(db, tx) = {}
             THEN /\ result'.ret.ok
                  /\ db' = state_after(db, tx, Len(tx))
             ELSE \E i \in FirstFailure(db, tx) :
                      /\ result'.ret = result_of(db, tx, i)
                      /\ db' = state_after(db, tx, i - 1)]_vars

\* a state after a batch that failed at a later operation and kept what the
\* operations before it did: an output was inserted and spent, then the same
\* Spend failed
C8_Witness ==
    /\ result.call = "write"
    /\ result.ret.kind = "UnspendableInput"
    /\ 1 \in DOMAIN db.stxos
    /\ 1 \notin DOMAIN db.utxos
    /\ db.kernels = EmptyMap

(* C9: Insert of a Metadata, BlockHeader, UnspentOutput, TransactionKernel or  *)
(* OrphanBlock pair whose key is present in its table fails with the           *)
(* duplicate-key error (InvalidOperation, "Duplicate key").                    *)
C9_DuplicateKeyFails ==
    [][\A op \in TableInserts :
          (fetch(db, DbKey(op.kv.variant, op.kv.k)) # <<>> /\ write(<<op>>))
          => result'.ret = DuplicateKey]_vars

\* a state after a failed Insert with every table holding a record
C9_Witness ==
    /\ result.call = "write"
    /\ result.ret = DuplicateKey
    /\ \A variant \in {"Metadata", "BlockHeader", "UnspentOutput", "TransactionKernel",
                       "OrphanBlock"} :
           \A k \in TableKeys : fetch(db, DbKey(variant, k)) # <<>>

(* C10: calculate_mmr_root is free of side effects: both roots of every tree,  *)
(* the state of the three accumulators and all record tables are the same      *)
(* before and after the call.                                                  *)
C10_CalculateRootChangesNothing ==
    [][\A tree \in MmrTree, additions \in HashLists, deletions \in HashLists :
          CalculateMmrRoot(tree, additions, deletions)
          => /\ \A t \in MmrTree :
                    /\ fetch_mmr_root(db', t) = fetch_mmr_root(db, t)
                    /\ fetch_mmr_only_root(db', t) = fetch_mmr_only_root(db, t)
                    /\ tree_mmr(db', t) = tree_mmr(db, t)
             /\ db' = db]_vars

\* a state after a call whose hypothetical root is the root of no tree: an
\* addition or a deletion of a known output took effect on the scratch copy
C10_Witness ==
    /\ result.call = "calculate_mmr_root"
    /\ result.ret.ok
    /\ \A t \in MmrTree : result.ret.val # fetch_mmr_root(db, t)
    /\ result.ret.val.deleted # Tombstones(db)
    /\ db.utxos # EmptyMap

----------------------------------------------------------------------------
(* Shorthands of the properties about hypothetical roots *)

\* the hashes of a list are pairwise distinct and none is a key of the UTXO table
NewOutputs(d, additions) ==
    /\ \A i \in 1..Len(additions) : additions[i] \notin DOMAIN d.utxos
    /\ \A i, j \in 1..Len(additions) : additions[i] = additions[j] => i = j

RECURSIVE insert_outputs(_, _, _)
\* the additions actually inserted, one write each, as outputs of value v with
\* update_mmr = true: (database, every write stayed within the bounds)
insert_outputs(d, additions, v) ==
    IF additions = <<>>
    THEN [db |-> d, within |-> TRUE]
    ELSE LET r == apply_op(d, Insert(DbKeyValuePair("UnspentOutput", Head(additions), v, TRUE)))
             rest == insert_outputs(r.db, Tail(additions), v)
         IN  [db |-> rest.db, within |-> r.res.kind # "OutOfModel" /\ rest.within]

RECURSIVE spend_outputs(_, _)
\* the deletions actually spent, one write each; a Spend that fails changes nothing
spend_outputs(d, deletions) ==
    IF deletions = <<>>
    THEN d
    ELSE spend_outputs(apply_op(d, Spend(DbKey("UnspentOutput", Head(deletions)))).db,
                       Tail(deletions))

(* C11: calculate_mmr_root(Utxo, additions, deletions) returns the root that   *)
(* fetch_mmr_root(Utxo) returns after the same changes are actually applied:   *)
(* each addition inserted as a new output with update_mmr = true, then each    *)
(* deleted hash spent; for every list of additions and of deletions, also when *)
(* a deleted hash is one of the additions or is not a key of the UTXO table.   *)
C11_CalculatedRootIsAppliedRoot ==
    [][\A additions \in HashLists, deletions \in HashLists, v \in Values :
          (/\ CalculateMmrRoot("Utxo", additions, deletions)
           /\ NewOutputs(db, additions)
           /\ insert_outputs(db, additions, v).within)
          => result'.ret.val
                 = fetch_mmr_root(spend_outputs(insert_outputs(db, additions, v).db, deletions),
                                  "Utxo")]_vars

(* C12: for the UTXO accumulator, after N pushes, a checkpoint, a delete of    *)
(* the M-th pushed leaf, a second checkpoint and RewindMmr(Utxo, 1), the       *)
(* mmr-only root, the leaf sequence and the tombstone set are what they were   *)
(* immediately after the first checkpoint.                                     *)
C12_RewindOneRestoresFirstCheckpoint ==
    [][\A l \in PushLists :
          \A m \in 1..Len(l) :
              (write_within(PushCommitDeleteCommitRewind(l, m), HistoryLimits) /\ result'.ret.ok)
              => LET first == write_ops_within(
                                  db, InsertAll(l) \o <<CreateMmrCheckpoint("Utxo")>>,
                                  HistoryLimits).db
                 IN  /\ fetch_mmr_only_root(db', "Utxo") = fetch_mmr_only_root(first, "Utxo")
                     /\ db'.utxo_mmr.mmr = first.utxo_mmr.mmr]_vars

\* a state after such a round trip in which the second commit had merged the
\* oldest checkpoints into the base: the output is spent, its leaf is live
\* again, and the newest retained checkpoint is the one that added leaves
C12_Witness ==
    /\ result.call = "write" /\ result.ret.ok
    /\ db.utxo_mmr.base.hashes # <<>>
    /\ checkpoint_count(db.utxo_mmr) >= 1
    /\ db.utxo_mmr.checkpoints[checkpoint_count(db.utxo_mmr)].nodes_added # <<>>
    /\ db.utxo_mmr.current_additions = <<>>
    /\ \E h \in DOMAIN db.stxos : LiveUtxoLeaf(db, db.stxos[h].index)

----------------------------------------------------------------------------
(* Shorthands of the properties about the horizon *)

\* the number of stored headers
header_count(d) == Cardinality(DOMAIN d.headers)

\* the number of checkpoints the kernel accumulator retains
kernel_checkpoints(d) == checkpoint_count(d.kernel_mmr)

\* the full chain was written block by block: every height holds a header,
\* the kernel accumulator holds the kernels of the blocks in order with
\* nothing pending, and every retained checkpoint added one kernel
FullChain(d) ==
    /\ DOMAIN d.headers = Heights
    /\ d.kernel_mmr.mmr.hashes = [i \in 1..NumBlocks |-> block_kernel(i - 1)]
    /\ d.kernel_mmr.current_additions = <<>>
    /\ \A i \in 1..kernel_checkpoints(d) : Len(d.kernel_mmr.checkpoints[i].nodes_added) = 1
    /\ Len(d.kernel_mmr.base.hashes) = NumBlocks - kernel_checkpoints(d)

(* C13: whenever fetch_horizon_block_height succeeds, it returns the number of *)
(* stored headers minus the number of checkpoints the kernel accumulator       *)
(* retains.                                                                    *)
C13_HorizonIsHeadersMinusCheckpoints ==
    [][\A o \in fetch_horizon_block_height(db) :
          (FetchHorizonBlockHeight(o) /\ result'.ret.ok)
          => result'.ret.val = U64(0, header_count(db) - kernel_checkpoints(db))]_vars

(* C14: fetch_mmr_checkpoint(tree, height) with a height smaller than the      *)
(* value fetch_horizon_block_height returns fails with BeyondPruningHorizon,   *)
(* for every tree, and changes no state.                                       *)
C14_BelowHorizonIsBeyondPruning ==
    [][result'.call = "fetch_mmr_checkpoint"
       => \A tree \in MmrTree, height \in Heights, o \in fetch_horizon_block_height(db) :
              (/\ FetchMmrCheckpoint(tree, height, o)
               /\ o.ok
               /\ u64_lt(U64(0, height), o.val))
              => /\ result'.ret.kind = "BeyondPruningHorizon"
                 /\ db' = db]_vars

\* a state after such a call on a chain whose oldest checkpoints were merged
\* into the base: more headers than retained checkpoints
C14_Witness ==
    /\ result.call = "fetch_mmr_checkpoint"
    /\ result.ret.kind = "BeyondPruningHorizon"
    /\ kernel_checkpoints(db) >= 1
    /\ header_count(db) > kernel_checkpoints(db)
    /\ db.kernel_mmr.base.hashes # <<>>

(* C15: when the stored headers are fewer than the checkpoints of the kernel   *)
(* accumulator, fetch_horizon_block_height fails by returning an error: it     *)
(* returns no height, wrapped around or otherwise, and it does not panic.      *)
C15_HorizonFailsWhenHeadersFewer ==
    [][\A o \in fetch_horizon_block_height(db) :
          (FetchHorizonBlockHeight(o) /\ header_count(db) < kernel_checkpoints(db))
          => /\ ~result'.ret.ok
             /\ result'.ret.kind # "Panic"]_vars

(* C16: with min_history_len = 2 and max_history_len = 3, after the headers of *)
(* heights 0..MaxHeight are inserted and one kernel is inserted and the kernel *)
(* accumulator committed for each height, the kernel accumulator retains at    *)
(* most max_history_len checkpoints and fetch_horizon_block_height returns the *)
(* number of blocks minus the retained count, at least the number of blocks    *)
(* minus max_history_len.                                                      *)
C16_HorizonAfterFullChain ==
    FullChain(db)
    => /\ kernel_checkpoints(db) <= max_history_len
       /\ \A o \in fetch_horizon_block_height(db) :
              /\ o.ok
              /\ o.val = U64(0, NumBlocks - kernel_checkpoints(db))
              /\ o.val.rest >= NumBlocks - max_history_len

\* the full chain with max_history_len checkpoints retained, after a call of
\* fetch_horizon_block_height
C16_Witness ==
    /\ FullChain(db)
    /\ kernel_checkpoints(db) = max_history_len
    /\ result.call = "fetch_horizon_block_height"
    /\ result.ret.ok

----------------------------------------------------------------------------
(* Shorthands of the properties about imported accumulator states *)

RECURSIVE delete_all(_, _)
\* the positions of a set tombstoned one by one
delete_all(m, positions) ==
    IF positions = {}
    THEN m
    ELSE LET pos == CHOOSE x \in positions : \A y \in positions : x <= y
         IN  delete_all(mmr_delete(m, pos), positions \ {pos})

\* a standalone accumulator built by pushing the leaves and deleting the
\* positions one by one
Incremental(state) == delete_all(push_all(EmptyMmr, state.leaf_hashes), state.deleted)

(* C17: assign_mmr(tree, state) makes fetch_mmr_root(tree) the root of a       *)
(* standalone accumulator that was assigned the same state, which is also the  *)
(* root of one built by pushing the same leaves and deleting the same          *)
(* positions one by one; the other two trees are unchanged.                    *)
C17_AssignedRootIsStandaloneRoot ==
    [][result'.call = "assign_mmr"
       => \A tree \in MmrTree, base_state \in LeafNodes :
              AssignMmr(tree, base_state)
              => /\ fetch_mmr_root(db', tree) = get_merkle_root(mmr_assign(EmptyMmr, base_state))
                 /\ fetch_mmr_root(db', tree) = get_merkle_root(Incremental(base_state))
                 /\ \A other \in MmrTree \ {tree} :
                        tree_mmr(db', other) = tree_mmr(db, other)]_vars

\* a state after an assignment of leaves with a tombstone to the UTXO tree of
\* a database whose kernel tree has a leaf of its own
C17_Witness ==
    /\ result.call = "assign_mmr"
    /\ db.utxo_mmr.base.deleted # {}
    /\ db.utxo_mmr.mmr = db.utxo_mmr.base
    /\ db.kernel_mmr.current_additions # <<>>

----------------------------------------------------------------------------
(* C18: the block_hashes index is the exact inverse of the headers table:      *)
(* block_hashes maps hash x to height k if and only if headers holds at height *)
(* k a header whose hash is x.                                                 *)
C18_BlockHashesInverseOfHeaders ==
    \A k \in Heights, v \in Values :
        (header_hash(v) \in DOMAIN db.block_hashes /\ db.block_hashes[header_hash(v)] = k)
        <=> (k \in DOMAIN db.headers /\ db.headers[k] = v)

(* C19: header heights are dense and zero-based: the keys of the headers table *)
(* are exactly 0 .. n-1, n the number of stored headers.                       *)
C19_HeaderHeightsDense ==
    DOMAIN db.headers = 0..(header_count(db) - 1)

(* C20: fetch_last_header returns none only when no header is stored; with a   *)
(* non-empty headers table it returns the header at height header_count - 1,   *)
(* which is the header with the greatest stored height.                        *)
C20_LastHeaderIsGreatestHeight ==
    [][FetchLastHeader
       => IF DOMAIN db.headers = {}
          THEN result'.ret.val = <<>>
          ELSE LET top == CHOOSE k \in DOMAIN db.headers : \A j \in DOMAIN db.headers : j <= k
               IN  /\ top = header_count(db) - 1
                   /\ result'.ret.val = <<db.headers[top]>>]_vars

----------------------------------------------------------------------------
\* the three accumulators of a database, each with its base, checkpoints,
\* pending changes and current leaves and tombstones
Accumulators(d) == <<d.utxo_mmr, d.kernel_mmr, d.range_proof_mmr>>

(* C28: UnSpend of a hash that is not a key of the STXO table fails with       *)
(* UnspendError and leaves the UTXO table, the STXO table and the three        *)
(* accumulators as they were.                                                  *)
C28_UnSpendUnknownFails ==
    [][\A h \in Hashes :
          (~contains(db, STXO(h)) /\ write(<<UnSpend(STXO(h))>>))
          => /\ result'.ret = Err("UnspendError", "")
             /\ db'.utxos = db.utxos
             /\ db'.stxos = db.stxos
             /\ Accumulators(db') = Accumulators(db)]_vars

\* a state after a failed UnSpend while an output is unspent with a live leaf
\* and no output is spent
C28_Witness ==
    /\ result.call = "write"
    /\ result.ret.kind = "UnspendError"
    /\ DOMAIN db.stxos = {}
    /\ \E h \in DOMAIN db.utxos : LiveUtxoLeaf(db, db.utxos[h].index)

(* C30: UnSpend(SpentOutput h) changes the UTXO table and the STXO table only: *)
(* the three accumulators and every other table stay as they were, so a leaf   *)
(* that was tombstoned before the UnSpend is tombstoned after it.              *)
C30_UnSpendKeepsAccumulators ==
    [][\A h \in Hashes :
          write(<<UnSpend(STXO(h))>>)
          => /\ Accumulators(db') = Accumulators(db)
             /\ [db' EXCEPT !.utxos = db.utxos, !.stxos = db.stxos] = db
             /\ (/\ contains(db, STXO(h))
                 /\ db.stxos[h].index \in Tombstones(db))
                => (/\ contains(db', UTXO(h))
                    /\ db'.utxos[h].index = db.stxos[h].index
                    /\ db'.utxos[h].index \in Tombstones(db'))]_vars

\* a state after the UnSpend of an output whose Spend was sealed in a
\* checkpoint: the output is unspent and its leaf is a committed tombstone
C30_Witness ==
    /\ result.call = "write" /\ result.ret.ok
    /\ \E h \in DOMAIN db.utxos :
          /\ h \notin DOMAIN db.stxos
          /\ db.utxo_mmr.current_deletions = {}
          /\ \E i \in 1..Len(db.utxo_mmr.checkpoints) :
                db.utxos[h].index \in db.utxo_mmr.checkpoints[i].nodes_deleted

----------------------------------------------------------------------------
(* C29: Spend with a key that is not an UnspentOutput key, and UnSpend with a  *)
(* key that is not a SpentOutput key, fail with InvalidOperation and leave     *)
(* every table and accumulator as it was, also when the hash of the key is     *)
(* unspent or spent.                                                           *)
C29_WrongKeyVariantFails ==
    [][\A variant \in KeyVariants, k \in TableKeys :
          /\ (variant # "UnspentOutput" /\ write(<<Spend(DbKey(variant, k))>>))
             => (result'.ret = Err("InvalidOperation", "Only UTXOs can be spent") /\ db' = db)
          /\ (variant # "SpentOutput" /\ write(<<UnSpend(DbKey(variant, k))>>))
             => (result'.ret = Err("InvalidOperation", "Only STXOs can be unspent") /\ db' = db)]_vars

\* a state after a refused UnSpend while an output is unspent and none is spent
C29_Witness ==
    /\ result.call = "write"
    /\ result.ret = Err("InvalidOperation", "Only STXOs can be unspent")
    /\ DOMAIN db.utxos # {}
    /\ DOMAIN db.stxos = {}

----------------------------------------------------------------------------
\* the leaf count of tracker new is at least that of tracker old, and its
\* tombstones include those of old
Grown(old, new) ==
    /\ leaf_count(new) >= leaf_count(old)
    /\ old.mmr.deleted \subseteq new.mmr.deleted

\* the batch tx holds a RewindMmr
HasRewind(tx) == \E i \in 1..Len(tx) : tx[i].op = "RewindMmr"

(* C24: for each of the three accumulators, every write leaves a leaf count    *)
(* that is not smaller and a tombstone set that includes the one before.       *)
C24_LeavesAndTombstonesOnlyGrow ==
    [][\A tree \in MmrTree : Grown(tree_mmr(db, tree), tree_mmr(db', tree))]_vars

(* C24, amended: for each of the three accumulators, every write of a batch    *)
(* without a RewindMmr leaves a leaf count that is not smaller and a tombstone *)
(* set that includes the one before.                                           *)
C24_GrowWithoutRewind ==
    [][\A tx \in TreeBatches :
          (~HasRewind(tx) /\ write(tx))
          => \A tree \in MmrTree : Grown(tree_mmr(db, tree), tree_mmr(db', tree))]_vars

\* a state after a checkpoint that sealed a leaf and its tombstone, with
\* nothing pending
C24_Witness ==
    /\ result.call = "write" /\ result.ret.ok
    /\ db.utxo_mmr.current_additions = <<>>
    /\ db.utxo_mmr.current_deletions = {}
    /\ checkpoint_count(db.utxo_mmr) = 1
    /\ db.utxo_mmr.checkpoints[1].nodes_added # <<>>
    /\ db.utxo_mmr.checkpoints[1].nodes_deleted # {}
    /\ Tombstones(db) # {}

----------------------------------------------------------------------------
\* the hashes of the leaves of the kernel accumulator
KernelLeaves(d) == {d.kernel_mmr.mmr.hashes[i] : i \in 1..leaf_count(d.kernel_mmr)}

(* C25: every kernel hash in the kernels table is a leaf of the kernel         *)
(* accumulator, every leaf of the kernel accumulator is the hash of a record   *)
(* of the kernels table, and no hash is carried by two leaves (every kernel    *)
(* being inserted with update_mmr = true).                                     *)
C25_KernelsOneToOneWithLeaves ==
    /\ DOMAIN db.kernels = KernelLeaves(db)
    /\ Cardinality(KernelLeaves(db)) = leaf_count(db.kernel_mmr)

----------------------------------------------------------------------------
(* C27: RewindMmr(tree, 0) after a checkpoint of the tree and an operation     *)
(* that left pending changes puts the tree back as the checkpoint left it:     *)
(* nothing is pending, roots, leaves and tombstones are those at the           *)
(* checkpoint, and the checkpoint count is unchanged; RewindMmr(tree, s) with  *)
(* s > 0 removes the s most recent checkpoints; neither touches another tree.  *)
C27_RewindZeroResets ==
    [][/\ \A tree \in MmrTree, op \in PendingOps :
            (write(CommitChangeReset(tree, op)) /\ result'.ret.ok)
            => LET sealed == state_after(db, CommitChangeReset(tree, op), 1)
                   t == tree_mmr(db', tree)
               IN  /\ t.current_additions = <<>> /\ t.current_deletions = {}
                   /\ fetch_mmr_root(db', tree) = fetch_mmr_root(sealed, tree)
                   /\ fetch_mmr_only_root(db', tree) = fetch_mmr_only_root(sealed, tree)
                   /\ t.mmr = tree_mmr(sealed, tree).mmr
                   /\ t.checkpoints = tree_mmr(sealed, tree).checkpoints
                   /\ \A other \in MmrTree \ {tree} :
                         tree_mmr(db', other)
                             = tree_mmr(state_after(db, CommitChangeReset(tree, op), 2), other)
       /\ \A tree \in MmrTree, s \in 1..MaxStepsBack :
            write(<<RewindMmr(tree, s)>>)
            => /\ tree_mmr(db', tree).checkpoints
                    = Take(tree_mmr(db, tree).checkpoints, checkpoint_count(tree_mmr(db, tree)) - s)
               /\ \A other \in MmrTree \ {tree} : tree_mmr(db', other) = tree_mmr(db, other)]_vars

\* a state after a reset that discarded the tombstone of a Spend: the output
\* is spent, its leaf is sealed in the checkpoint and is live
C27_Witness ==
    /\ result.call = "write" /\ result.ret.ok
    /\ checkpoint_count(db.utxo_mmr) = 1
    /\ db.utxo_mmr.current_deletions = {}
    /\ \E h \in DOMAIN db.stxos : LiveUtxoLeaf(db, db.stxos[h].index)

----------------------------------------------------------------------------
\* thread t is in the middle of a batch: its write applied some operation and
\* has not returned
MidBatch(t) == threads[t].call = "write" /\ threads[t].applied > 0

\* thread t is about to apply an operation of a write or of an assign_mmr
Mutating(t) == threads[t].pc \in {"write_loop", "assign"}

\* thread t holds a read guard: what it reads is the database as it is now
Observing(t) == lock.readers[t] > 0

(* C21: while a write is between two operations of its batch, no other thread  *)
(* holds a read guard and no other thread is inside a write or an assign_mmr.  *)
C21_WritersExcludeForWholeBatch ==
    \A t \in Threads :
        MidBatch(t) => \A u \in Threads \ {t} : ~Observing(u) /\ ~Mutating(u)

\* a write in the middle of its batch with another thread waiting to read: the
\* header of the block is stored and the checkpoint is not yet made
C21_Witness ==
    \E t \in Threads, u \in Threads :
        /\ MidBatch(t)
        /\ threads[u].pc = "read_lock"
        /\ 0 \in DOMAIN db.headers

----------------------------------------------------------------------------
\* thread t made a call that has not returned
Started(t) == threads[t].pc \notin {"idle", "panicked"}

\* thread t waits for the lock and cannot be given it
Blocked(t) ==
    \/ threads[t].pc \in {"write_lock", "assign_lock"} /\ ~can_write(lock)
    \/ threads[t].pc \in {"read_lock", "horizon_lock"} /\ ~can_read(lock, writer_waits)

(* C22: no call blocks for ever: whenever calls are under way, one of them can *)
(* take its next step, so the threads under way never all wait for the lock;   *)
(* in particular the second acquisition of the read lock inside                *)
(* fetch_mmr_checkpoint never waits behind a writer that waits for the first.  *)
C22_NoCallBlocksForever ==
    (\E t \in Threads : Started(t)) => \E t \in Threads : Started(t) /\ ~Blocked(t)

----------------------------------------------------------------------------
(* C23: once the lock is poisoned the database never changes, and a thread     *)
(* that takes a step of the call it waits in returns AccessError at that step. *)
C23_PoisonedLockIsAccessError ==
    [][lock.poisoned
       => /\ db' = db
          /\ \A t \in Threads :
                (Started(t) /\ threads'[t] # threads[t])
                => /\ threads'[t] = Idle
                   /\ result' = [call |-> threads[t].call, ret |-> PoisonedLock]]_vars

\* a state after a read operation returned AccessError from the poisoned lock,
\* with the header of the batch that panicked still stored
C23_Witness ==
    /\ lock.poisoned
    /\ result.call = "fetch_last_header"
    /\ result.ret = PoisonedLock
    /\ 0 \in DOMAIN db.headers

----------------------------------------------------------------------------
\* the number of calls of the next service with a message of signature sig
CallsWith(d, sig) ==
    Cardinality({i \in 1..Len(d.next_calls) : d.next_calls[i].origin_signature = sig})

(* C26: a message whose signature the requester reports as not cached is       *)
(* passed to the next service, once; a message reported as a duplicate is not  *)
(* passed on and the result is Ok; so after any sequence of messages the next  *)
(* service was called once for every cached signature and for no other.        *)
C26_DedupForwardsOncePerSignature ==
    [][\A message \in Messages :
          \A reply \in insert_message_signature(dedup.signatures, message.origin_signature),
             served \in ServiceResults :
              ProcessMessage(message, reply, served)
              => /\ (reply.ret.ok /\ ~reply.ret.val[1])
                    => dedup'.next_calls = Append(dedup.next_calls, message)
                 /\ (reply.ret.ok /\ reply.ret.val[1])
                    => (dedup'.next_calls = dedup.next_calls /\ result'.ret = Ok(<<>>))
                 /\ \A sig \in Signatures :
                       CallsWith(dedup', sig) = IF sig \in dedup'.signatures THEN 1 ELSE 0]_vars

\* a state after a duplicate was discarded: the next service was called once,
\* with another message of the same signature
C26_Witness ==
    /\ result.call = "process_message" /\ result.ret.ok
    /\ Len(dedup.next_calls) = 1
    /\ \E message \in dedup.warned :
          /\ message # dedup.next_calls[1]
          /\ message.origin_signature = dedup.next_calls[1].origin_signature

----------------------------------------------------------------------------
\* database new differs from database old at most in the tables that a key of
\* the given variant addresses
SameBut(old, new, variant) ==
    CASE variant = "Metadata" -> new = old
      [] variant \in {"BlockHeader", "BlockHash"} ->
            [new EXCEPT !.headers = old.headers, !.block_hashes = old.block_hashes] = old
      [] variant = "UnspentOutput" -> [new EXCEPT !.utxos = old.utxos] = old
      [] variant = "SpentOutput" -> [new EXCEPT !.stxos = old.stxos] = old
      [] variant = "TransactionKernel" -> [new EXCEPT !.kernels = old.kernels] = old
      [] variant = "OrphanBlock" -> [new EXCEPT !.orphans = old.orphans] = old

(* C31: Delete of a key of any variant, present or not, succeeds, leaves the   *)
(* three accumulators as they were and changes no table but the one the key    *)
(* addresses (for a header key or a header hash, the headers table and the     *)
(* index by hash); a key other than a Metadata key is absent afterwards.       *)
C31_DeleteKeepsAccumulators ==
    [][\A op \in TableDeletes :
          write(<<op>>)
          => /\ result'.ret = Ok(<<>>)
             /\ Accumulators(db') = Accumulators(db)
             /\ SameBut(db, db', op.key.variant)
             /\ op.key.variant # "Metadata" => ~contains(db', op.key)]_vars

\* a state after the Delete of a spent output: no output is stored, and the
\* leaf and the tombstone of the deleted one are still in the accumulator
C31_Witness ==
    /\ result.call = "write" /\ result.ret.ok
    /\ DOMAIN db.utxos = {} /\ DOMAIN db.stxos = {}
    /\ leaf_count(db.utxo_mmr) = 1
    /\ Tombstones(db) = {0}

----------------------------------------------------------------------------
(* C32: Insert of an output under a fresh key, without update_mmr and with a   *)
(* range-proof hash that is no leaf of the range-proof accumulator, returns Ok *)
(* and stores nothing: the key is still absent and the database is unchanged;  *)
(* Insert of a kernel under a fresh key, with or without update_mmr, returns   *)
(* Ok and the key is present with the inserted value.                          *)
C32_UnresolvedOutputIsNotInserted ==
    [][\A op \in TableInserts :
          LET key == DbKey(op.kv.variant, op.kv.k)
          IN  /\ (/\ op.kv.variant = "UnspentOutput"
                  /\ ~contains(db, key)
                  /\ ~op.kv.update_mmr
                  /\ find_leaf_index(db.range_proof_mmr.mmr, proof_hash(op.kv.v)) = NoIndex
                  /\ write(<<op>>))
                 => (result'.ret = Ok(<<>>) /\ ~contains(db', key) /\ db' = db)
              /\ (/\ op.kv.variant = "TransactionKernel"
                  /\ ~contains(db, key)
                  /\ write(<<op>>))
                 => (/\ result'.ret = Ok(<<>>)
                     /\ contains(db', key)
                     /\ fetch(db', key) = <<op.kv.v>>)]_vars

\* a state after successful Inserts in which a kernel is stored without a leaf
\* while no output is stored and the range-proof accumulator has no leaf
C32_Witness ==
    /\ result.call = "write" /\ result.ret.ok
    /\ DOMAIN db.kernels # {}
    /\ leaf_count(db.kernel_mmr) = 0
    /\ DOMAIN db.utxos = {} /\ DOMAIN db.stxos = {}
    /\ leaf_count(db.range_proof_mmr) = 0
    /\ leaf_count(db.utxo_mmr) = 0

----------------------------------------------------------------------------
(* C33: an Insert under a key that holds a record fails and changes nothing:   *)
(* the stored value, the index of headers by hash, the three accumulators and  *)
(* every other table are as before, also when update_mmr is set.               *)
C33_DuplicateInsertChangesNothing ==
    [][\A op \in TableInserts :
          (fetch(db, DbKey(op.kv.variant, op.kv.k)) # <<>> /\ write(<<op>>))
          => /\ ~result'.ret.ok
             /\ fetch(db', DbKey(op.kv.variant, op.kv.k)) = fetch(db, DbKey(op.kv.variant, op.kv.k))
             /\ db'.block_hashes = db.block_hashes
             /\ Accumulators(db') = Accumulators(db)
             /\ db' = db]_vars

\* a state after a failed Insert with one output stored, one leaf in each of
\* the output accumulators and no kernel
C33_Witness ==
    /\ result.call = "write"
    /\ result.ret = DuplicateKey
    /\ DOMAIN db.utxos = TableKeys
    /\ leaf_count(db.utxo_mmr) = 1
    /\ leaf_count(db.range_proof_mmr) = 1
    /\ DOMAIN db.kernels = {}

----------------------------------------------------------------------------
(* C34: contains reports true for a Metadata key in every state, before and    *)
(* after every step, also when fetch of the key returns none; and Delete of a  *)
(* Metadata key succeeds and leaves what fetch of the key returns unchanged.   *)
C34_MetadataAlwaysContained ==
    [][\A k \in TableKeys :
          /\ contains(db, DbKey("Metadata", k))
          /\ contains(db', DbKey("Metadata", k))
          /\ write(<<Delete(DbKey("Metadata", k))>>)
             => /\ result'.ret = Ok(<<>>)
                /\ fetch(db', DbKey("Metadata", k)) = fetch(db, DbKey("Metadata", k))
                /\ db'.metadata = db.metadata]_vars

\* a state after a write in which a Metadata key holds no value and is
\* reported as contained, while a header and an orphan block are stored
C34_Witness ==
    /\ result.call = "write" /\ result.ret.ok
    /\ \E k \in TableKeys :
          /\ fetch(db, DbKey("Metadata", k)) = <<>>
          /\ contains(db, DbKey("Metadata", k))
    /\ DOMAIN db.headers # {}
    /\ DOMAIN db.orphans # {}

----------------------------------------------------------------------------
(* C35: calculate_mmr_root of the Kernel or the RangeProof tree returns what   *)
(* it returns with no deletions, whatever the deletions are; for the Utxo tree *)
(* it succeeds and returns what it returns with only those deletions that are  *)
(* keys of the UTXO table.                                                     *)
C35_DeletionsOnlyForKnownUtxos ==
    [][\A tree \in MmrTree, additions \in HashLists, deletions \in HashLists :
          CalculateMmrRoot(tree, additions, deletions)
          => LET known(hash) == hash \in DOMAIN db.utxos
             IN  /\ result'.ret.ok
                 /\ tree # "Utxo"
                    => result'.ret = calculate_mmr_root(db, tree, additions, <<>>).res
                 /\ tree = "Utxo"
                    => result'.ret
                         = calculate_mmr_root(db, tree, additions, SelectSeq(deletions, known)).res]_vars

\* a state after calculate_mmr_root of the RangeProof tree while an output is
\* unspent: the root returned covers the range-proof leaf, with no tombstone
C35_Witness ==
    /\ result.call = "calculate_mmr_root"
    /\ result.ret.ok
    /\ DOMAIN db.utxos # {}
    /\ result.ret.val.hashes # <<>>
    /\ result.ret.val.hashes[1] = proof_hash(1)
    /\ result.ret.val.deleted = {}

----------------------------------------------------------------------------
(* C36: the UTXO accumulator and the range-proof accumulator have the same     *)
(* number of leaves in every reachable state.                                  *)
C36_OutputTreesSameLeafCount ==
    leaf_count(db.utxo_mmr) = leaf_count(db.range_proof_mmr)

----------------------------------------------------------------------------
\* the records of outputs: (table, key, leaf index)
OutputRecords(d) ==
    {<<"utxos", h, d.utxos[h].index>> : h \in DOMAIN d.utxos}
    \cup {<<"stxos", h, d.stxos[h].index>> : h \in DOMAIN d.stxos}

(* C37: two distinct records of the UTXO table and the STXO table never carry  *)
(* the same leaf index.                                                        *)
C37_DistinctRecordsDistinctLeaves ==
    \A r1, r2 \in OutputRecords(db) : r1[3] = r2[3] => r1 = r2

----------------------------------------------------------------------------
(* C38: CreateMmrCheckpoint(tree) and RewindMmr(tree, steps_back) succeed and  *)
(* change nothing but the accumulator of that tree: the two other accumulators *)
(* and every table are as before.                                              *)
C38_CheckpointAndRewindTouchOneTree ==
    [][\A tree \in MmrTree :
          (\/ write(<<CreateMmrCheckpoint(tree)>>)
           \/ \E s \in 0..MaxStepsBack : write(<<RewindMmr(tree, s)>>))
          => /\ result'.ret = Ok(<<>>)
             /\ with_tree_mmr(db', tree, tree_mmr(db, tree)) = db]_vars

\* a state after a reset of the Kernel tree that discarded the leaf of a
\* kernel: the record is still stored, as is an output with both its leaves
C38_Witness ==
    /\ result.call = "write" /\ result.ret.ok
    /\ DOMAIN db.kernels # {}
    /\ leaf_count(db.kernel_mmr) = 0
    /\ DOMAIN db.utxos # {}
    /\ leaf_count(db.utxo_mmr) = 1
    /\ leaf_count(db.range_proof_mmr) = 1

----------------------------------------------------------------------------
(* C39: fetch_mmr_checkpoint(tree, height) of any tree, with a height that is  *)
(* at least the value fetch_horizon_block_height returns and smaller than the  *)
(* number of stored headers, succeeds and returns the retained checkpoint of   *)
(* that tree at index height - horizon.                                        *)
C39_CheckpointWithinHorizonIsFound ==
    [][result'.call = "fetch_mmr_checkpoint"
       => \A tree \in MmrTree, height \in Heights, o \in fetch_horizon_block_height(db) :
              (/\ FetchMmrCheckpoint(tree, height, o)
               /\ o.ok
               /\ ~u64_lt(U64(0, height), o.val)
               /\ height < header_count(db))
              => /\ result'.ret.ok
                 /\ result'.ret = get_checkpoint(tree_mmr(db, tree), height - o.val.rest)]_vars

====
